---- MODULE Spec2Model ----
(***************************************************************************)
(* DentalCad-Pro: the margin stage of DentalWorkflowManager                *)
(* (src/src/dentalWorkflow.js), the ModelingBackendService adapter         *)
(* (src/unnamed/part_004) and the .PTS writer of the scan-cleanup hook     *)
(* (src/unnamed/part_003).                                                 *)
(*                                                                         *)
(* Numbers are fixed point: one unit is 1e-7, so Unit stands for 1.0.      *)
(* A JavaScript number is a record [nan, v]; v is meaningless when nan.    *)
(* Math.random() is a value in 0..999 thousandths drawn from RandSet.      *)
(* Every handler and every promise/timer callback is one atomic action:    *)
(* a callback together with the microtasks it queues runs to completion    *)
(* before the browser dispatches another event.                            *)
(***************************************************************************)
EXTENDS Integers, Sequences, FiniteSets, TLC

\* ------------------------------------------------------------------ bounds
MaxOps == 3          \* user commands per behaviour
MaxDensity == 15     \* largest #pointDensity slider value explored
MaxValid == 10       \* largest number of well-formed lines in an input file
MaxLinePoints == 2   \* largest number of points on one margin line of the hook
MaxTriangles == 2    \* largest number of triangles of a mesh handed to solidifyModel
MaxHookOps == 4      \* calls of the scan-cleanup hook per behaviour
MaxClock == 2        \* largest Date.now() value explored
MaxCurvePoints == 5  \* largest short point list handed to the curve engine
MaxCandidates == 60  \* suggestedMargin.length is counted up to this value

\* ------------------------------------------------------- program constants
MinDensity == 10         \* <input id="pointDensity" min="10">
DensityStep == 5         \* <input id="pointDensity" step="5">
DefaultDensity == 50     \* options.point_density || 50
Radius == 3              \* const radius = 3
MinComplete == 10        \* points.length >= 10
FixedDigits == 6         \* toFixed(6)
InitialSmoothness == 5   \* settings.smoothness: 5
MarginStage == 3         \* stages[3].name: 'Margin'
LastStage == 5           \* nextStage: nextStageNum <= 5
ToleranceInverse == 10   \* const tolerance = 0.1
BoundaryNeighbors == 6   \* neighborCount < 6

Unit == 10 ^ 7
NormalUnit == 10
LongCurve == 22
SamplePoints == 50
DetectedAbove == 10
RingInner == 3
RingOuter == 8
SampleSteps == 8
DepthUnit == 2
RandSet == {0, 999}
SmoothnessSet == {1, InitialSmoothness}

\* ------------------------------------------------------- JavaScript numbers
Num(v) == [nan |-> FALSE, v |-> v]
NaN == [nan |-> TRUE, v |-> 0]
IsNaN(f) == f.nan

\* |a - b| < eps on numbers; false as soon as one side is NaN
Within(a, b, eps) ==
    /\ ~IsNaN(a)
    /\ ~IsNaN(b)
    /\ a.v - b.v < eps
    /\ b.v - a.v < eps

\* cos of k*6 degrees, k = 0..15, in units
CosTable ==
    << 10000000, 9945219, 9781476, 9510565, 9135455, 8660254, 8090170, 7431448,
       6691306, 5877853, 5000000, 4067366, 3090170, 2079117, 1045285, 0 >>

\* Math.cos(angle) for angle = k * 6 degrees
Cos6(k) ==
    LET m == k % 60
    IN  IF m <= 15 THEN CosTable[m + 1]
        ELSE IF m <= 30 THEN 0 - CosTable[(30 - m) + 1]
        ELSE IF m <= 45 THEN 0 - CosTable[(m - 30) + 1]
        ELSE CosTable[(60 - m) + 1]

\* Math.sin(angle) for angle = k * 6 degrees
Sin6(k) == Cos6(k + 45)

\* The i-th (0-based) quadruple of Math.random() draws of one call
RandAt(stream, i) == stream[(i % 2) + 1]

\* The angle (i / density) * 2 * PI as a multiple of 6 degrees
AngleOf(i, density) == (i * 60) \div density

\* One point of the simulated circle; base is the confidence floor
CirclePoint(i, density, r, base) ==
    [ id |-> i + 1,
      x |-> Num(Radius * Cos6(AngleOf(i, density)) + (r - 500) * 2000),
      y |-> Num(Radius * Sin6(AngleOf(i, density)) + (r - 500) * 2000),
      z |-> Num((0 - Unit) + (r - 500) * 1000),
      confidence |-> base + r * 2000 ]

\* options.point_density || 50
OptionDensity(d) == IF d = 0 THEN DefaultDensity ELSE d

\* ModelingBackendService.fallbackMarginDetection
fallbackMarginDetection(optDensity, stream) ==
    LET density == OptionDensity(optDensity)
        points == [ j \in 1..density |->
                      CirclePoint(j - 1, density, RandAt(stream, j - 1), 7 * (Unit \div 10)) ]
    IN  [ success |-> TRUE, points |-> points, count |-> Len(points), source |-> "fallback" ]

\* DentalWorkflowManager.runMarginDetectionAlgorithm: returns the bare list
runMarginDetectionAlgorithm(density, stream) ==
    [ j \in 1..density |->
        CirclePoint(j - 1, density, RandAt(stream, j - 1), 8 * (Unit \div 10)) ]

\* The external provider's answer to POST /margin/detect with success = true
ExternalPoints(n) ==
    [ j \in 1..n |->
        [ id |-> j,
          x |-> Num(j * 1234567),
          y |-> Num(0 - j * 7654321),
          z |-> Num(j * 1111111 - Unit),
          confidence |-> 95 * (Unit \div 100) ] ]

ExternalDetectResult(n) ==
    [ success |-> TRUE, points |-> ExternalPoints(n), count |-> n, source |-> "external" ]

\* ------------------------------------------------------------- .PTS text
(* A text is the sequence of lines that content.split('\n') yields.  A     *)
(* line is its leading-whitespace flag and its whitespace-separated        *)
(* tokens.  A token is a decimal literal ("num", value v printed with dec  *)
(* decimals), a literal followed by junk such as 1.5abc ("numjunk"), a     *)
(* token starting with '#' ("hash") or any other text ("word").            *)
NumTok(v, dec) == [k |-> "num", s |-> "", v |-> v, dec |-> dec]
JunkTok(v) == [k |-> "numjunk", s |-> "abc", v |-> v, dec |-> 0]
WordTok(s) == [k |-> "word", s |-> s, v |-> 0, dec |-> 0]
HashTok == [k |-> "hash", s |-> "#", v |-> 0, dec |-> 0]
IntTok(n) == NumTok(n * Unit, 0)
Line(indent, toks) == [indent |-> indent, toks |-> toks]
BlankLine == Line(FALSE, << >>)

\* Number.prototype.toFixed(digits): nearest multiple of 10^-digits, ties up
toFixed(f, digits) ==
    LET q == 10 ^ (7 - digits)
    IN  IF IsNaN(f) THEN WordTok("NaN")
        ELSE NumTok(((f.v + q \div 2) \div q) * q, digits)

\* parseFloat(token): the longest numeric prefix, NaN when there is none
parseFloat(tok) == IF tok.k \in {"num", "numjunk"} THEN Num(tok.v) ELSE NaN

\* line.startsWith('#'), on the untrimmed line
StartsWithHash(l) == ~l.indent /\ l.toks # << >> /\ l.toks[1].k = "hash"

\* line.trim() is a non-empty string
TrimNonEmpty(l) == l.toks # << >>

\* orderData.caseNumber and orderData.toothNumber as they print
CaseNumber == WordTok("DC-2023-4872")
ToothNumber == IntTok(14)

\* new Date().toISOString()
IsoNow == WordTok("2026-01-01T00:00:00.000Z")

\* DentalWorkflowManager.fallbackExportMarginPts: the text of ptsContent
PtsContent(pts, caseNumber, toothNumber) ==
    << Line(FALSE, << HashTok, WordTok("Margin"), WordTok("Points"), WordTok("for"),
                      WordTok("Case"), caseNumber >>),
       Line(FALSE, << HashTok, WordTok("Tooth:"), toothNumber >>),
       Line(FALSE, << HashTok, WordTok("Generated:"), IsoNow >>),
       Line(FALSE, << HashTok, WordTok("Point"), WordTok("Count:"), IntTok(Len(pts)) >>),
       BlankLine >>
    \o [ i \in 1..Len(pts) |->
           Line(FALSE, << toFixed(pts[i].x, FixedDigits),
                          toFixed(pts[i].y, FixedDigits),
                          toFixed(pts[i].z, FixedDigits) >>) ]
    \o << BlankLine >>

\* DentalWorkflowManager.fallbackExportMarginPts: the downloaded file
fallbackExportMarginPts(pts, caseNumber, toothNumber) ==
    [ name |-> "margin_case_tooth.pts",
      text |-> PtsContent(pts, caseNumber, toothNumber),
      written |-> Len(pts) ]

\* DentalWorkflowManager.importMarginPts: the list importedPoints
ImportedPoints(text) ==
    LET lines == SelectSeq(text, LAMBDA l : TrimNonEmpty(l) /\ ~StartsWithHash(l))
        indexed == [ i \in 1..Len(lines) |-> [id |-> i, coords |-> lines[i].toks] ]
        kept == SelectSeq(indexed, LAMBDA e : Len(e.coords) >= 3)
    IN  [ i \in 1..Len(kept) |->
            [ id |-> kept[i].id,
              x |-> parseFloat(kept[i].coords[1]),
              y |-> parseFloat(kept[i].coords[2]),
              z |-> parseFloat(kept[i].coords[3]),
              confidence |-> Unit ] ]

\* useScanCleanup.exportFiles.exportPtsFile: the lines written for the margin
\* lines from the k-th on
RECURSIVE MarginLineSections(_, _)
MarginLineSections(lines, k) ==
    IF k > Len(lines) THEN << >>
    ELSE << Line(FALSE, << HashTok, WordTok("Margin"), WordTok("Line"), IntTok(k),
                           [WordTok("(") EXCEPT !.v = Len(lines[k].points) * Unit],
                           WordTok("points)") >>),
            Line(FALSE, << HashTok, WordTok("Color:"),
                           [HashTok EXCEPT !.s = lines[k].color], WordTok("Thickness:"),
                           IntTok(lines[k].thickness) >>) >>
         \o [ i \in 1..Len(lines[k].points) |->
                Line(FALSE, << toFixed(lines[k].points[i].position.x, FixedDigits),
                               toFixed(lines[k].points[i].position.y, FixedDigits),
                               toFixed(lines[k].points[i].position.z, FixedDigits),
                               toFixed(lines[k].points[i].normal.x, FixedDigits),
                               toFixed(lines[k].points[i].normal.y, FixedDigits),
                               toFixed(lines[k].points[i].normal.z, FixedDigits) >>) ]
         \o << BlankLine >>
         \o MarginLineSections(lines, k + 1)

\* useScanCleanup.exportFiles.exportPtsFile
exportPtsFile(lines) ==
    << Line(FALSE, << HashTok, WordTok("Margin"), WordTok("Points"), WordTok("File") >>),
       Line(FALSE, << HashTok, WordTok("Generated:"), IsoNow >>),
       Line(FALSE, << HashTok, WordTok("Total"), WordTok("margin"), WordTok("lines:"),
                      IntTok(Len(lines)) >>),
       BlankLine >>
    \o MarginLineSections(lines, 1)
    \o << BlankLine >>

\* ------------------------------------------------------ margin curve engine
\* The sum divided by smoothness + 1
SmoothAxisShort(prev, current, next, smoothness) ==
    IF IsNaN(prev) \/ IsNaN(current) \/ IsNaN(next) THEN NaN
    ELSE Num((prev.v + current.v * smoothness + next.v) \div (smoothness + 1))

\* (prev + current * smoothness + next) / (smoothness + 2) on one axis
SmoothAxis(prev, current, next, smoothness) ==
    IF IsNaN(prev) \/ IsNaN(current) \/ IsNaN(next) THEN NaN
    ELSE Num((prev.v + current.v * smoothness + next.v) \div (smoothness + 2))

\* Smoothing in place: entry i sees the smoothed entries before it
RECURSIVE SmoothFrom(_, _, _)
SmoothFrom(pts, smoothness, i) ==
    IF i > Len(pts) THEN pts
    ELSE LET n == Len(pts)
             prev == pts[((i - 2 + n) % n) + 1]
             next == pts[(i % n) + 1]
             smoothedPoint ==
                 [ pts[i] EXCEPT
                     !.x = SmoothAxis(prev.x, pts[i].x, next.x, smoothness),
                     !.y = SmoothAxis(prev.y, pts[i].y, next.y, smoothness),
                     !.z = SmoothAxis(prev.z, pts[i].z, next.z, smoothness) ]
         IN  SmoothFrom([ pts EXCEPT ![i] = smoothedPoint ], smoothness, i + 1)

smoothInPlace(pts, smoothness) == SmoothFrom(pts, smoothness, 1)

\* DentalWorkflowManager.smoothMarginPoints
smoothMarginPoints(pts, smoothness) ==
    LET n == Len(pts)
        prev(i) == pts[((i - 2 + n) % n) + 1]
        next(i) == pts[(i % n) + 1]
    IN  [ i \in 1..n |->
            [ pts[i] EXCEPT
                !.x = SmoothAxis(prev(i).x, pts[i].x, next(i).x, smoothness),
                !.y = SmoothAxis(prev(i).y, pts[i].y, next(i).y, smoothness),
                !.z = SmoothAxis(prev(i).z, pts[i].z, next(i).z, smoothness) ] ]

\* One axis of catmullRom at t = q / 4:
\* 0.5 * (2 p1 + a t + b t^2 + c t^3) = p1 + a q / 8 + b q^2 / 32 + c q^3 / 128
CatmullAxis(p0, p1, p2, p3, q) ==
    IF IsNaN(p0) \/ IsNaN(p1) \/ IsNaN(p2) \/ IsNaN(p3) THEN NaN
    ELSE Num( p1.v
              + (q * (p2.v - p0.v)) \div 8
              + q * q * ((2 * p0.v - 5 * p1.v + 4 * p2.v - p3.v) \div 32)
              + q * q * q * ((3 * p1.v - p0.v - 3 * p2.v + p3.v) \div 128) )

\* catmullRom on the control points taken one place further on
catmullRomShifted(p0, p1, p2, p3, q) ==
    [ x |-> CatmullAxis(p1.x, p2.x, p3.x, p0.x, q),
      y |-> CatmullAxis(p1.y, p2.y, p3.y, p0.y, q),
      z |-> CatmullAxis(p1.z, p2.z, p3.z, p0.z, q) ]

\* DentalWorkflowManager.catmullRom
catmullRom(p0, p1, p2, p3, q) ==
    [ x |-> CatmullAxis(p0.x, p1.x, p2.x, p3.x, q),
      y |-> CatmullAxis(p0.y, p1.y, p2.y, p3.y, q),
      z |-> CatmullAxis(p0.z, p1.z, p2.z, p3.z, q) ]

\* The (n, i) with n <= 26 for which the double product (i / (4 * n)) * n falls
\* just below the whole number i / 4
ProductBelow == { << 22, 60 >>, << 23, 52 >>, << 26, 60 >> }

\* Math.floor(t * n) for t = i / segments, in IEEE-754 doubles
SegmentFloor(n, i, segments) ==
    IF segments = 4 * n /\ << n, i >> \in ProductBelow
    THEN ((i * n) \div segments) - 1
    ELSE (i * n) \div segments

\* interpolateSpline with the index rounded to the nearest whole number
interpolateRounded(pts, i, segments) ==
    LET n == Len(pts)
        index == (2 * i * n + segments) \div (2 * segments)
    IN  IF n < 4 THEN pts[((2 * i * (n - 1) + segments) \div (2 * segments)) + 1]
        ELSE pts[(index % n) + 1]

\* DentalWorkflowManager.interpolateSpline at t = i / segments
interpolateSpline(pts, i, segments) ==
    LET n == Len(pts)
        index == SegmentFloor(n, i, segments)
        q == ((i * n * 4) \div segments) - 4 * index
    IN  IF n < 4 THEN pts[((i * (n - 1)) \div segments) + 1]
        ELSE catmullRom(pts[((index - 1 + n) % n) + 1], pts[(index % n) + 1],
                        pts[((index + 1) % n) + 1], pts[((index + 2) % n) + 1], q)

NoCurve == << [none |-> TRUE] >>

\* DentalWorkflowManager.generateMarginCurve (null is NoCurve)
generateMarginCurve(pts) ==
    LET segments == Len(pts) * 4
    IN  IF Len(pts) < 3 THEN NoCurve
        ELSE [ j \in 1..(segments + 1) |-> interpolateSpline(pts, j - 1, segments) ]

\* -------------------------------------------------------------- input sets
\* Values the #pointDensity slider can hold, up to the bound
DensitySet ==
    { d \in MinDensity..MaxDensity : (d - MinDensity) % DensityStep = 0 /\ 60 % d = 0 }

\* The draws of one call: r on even indices, its mirror on odd ones
Streams == { << r, 999 - r >> : r \in RandSet }

\* Point counts the external provider answers with
ExternalCounts == {MinComplete - 1, MinComplete + 2}

\* A well-formed data line: three decimal literals with seven decimals
ValidLine(i) ==
    Line(FALSE, << NumTok(i * 1234567 + 3, 7), NumTok(0 - i * 7654321, 7),
                   NumTok(i * 1000001 - Unit, 7) >>)

\* Lines a hand-edited or foreign file may hold
MalformedLine(kind) ==
    CASE kind = "word" -> Line(FALSE, << NumTok(Unit, 1), WordTok("abc"), NumTok(2 * Unit, 1) >>)
      [] kind = "junk" -> Line(FALSE, << JunkTok(15 * (Unit \div 10)), IntTok(2), IntTok(3) >>)
      [] kind = "short" -> Line(FALSE, << NumTok(Unit, 1), NumTok(2 * Unit, 1) >>)
      [] kind = "note" -> Line(TRUE, << HashTok, WordTok("checked"), WordTok("by"), WordTok("lab") >>)

MalformedKinds == {"word", "junk", "short", "note"}

\* A file of k well-formed lines; bad names the malformed lines mixed in
\* ("none" for a clean file): one after the first half, one at the end
InputFile(k, bad) ==
    LET h == k \div 2
        extra == IF bad = "none" THEN << >> ELSE << MalformedLine(bad) >>
    IN  << Line(FALSE, << HashTok, WordTok("margin") >>) >>
        \o [ i \in 1..h |-> ValidLine(i) ]
        \o extra
        \o [ i \in 1..(k - h) |-> ValidLine(h + i) ]
        \o extra
        \o << BlankLine >>

ValidCounts == {0, 1, MinComplete - 1, MaxValid}

InputFiles == { InputFile(k, bad) : k \in ValidCounts, bad \in MalformedKinds \cup {"none"} }

\* The files offered to the margin stage's file input
WorkflowFiles ==
    { InputFile(0, "none"), InputFile(0, "word"), InputFile(MinComplete - 1, "none"),
      InputFile(MaxValid, "word") }

\* -------------------------------------------------------- modelling tools
\* Float32Array values of the modelling tools. A normal component is a whole
\* number of 1/NormalUnit, a depth a whole number of 1/DepthUnit mm and a
\* position a whole number of 1/PosUnit mm, so that position + normal * depth
\* needs no rounding.
PosUnit == NormalUnit * DepthUnit
DefaultDepth == 2 * DepthUnit

\* The value of the extrusionDepth argument; an argument left out is undefined
Depth(v) == [given |-> TRUE, v |-> v]
UndefinedDepth == [given |-> FALSE, v |-> 0]
DepthValues == { 0 - DepthUnit, 1, 2 * DepthUnit }
Depths == { Depth(v) : v \in DepthValues } \cup { UndefinedDepth }

\* extrusionDepth = 2.0 in the parameter list
DepthParameter(extrusionDepth) ==
    IF extrusionDepth.given THEN extrusionDepth.v ELSE DefaultDepth

\* Vertex v, counted from 0, of a flat array
VertexAt(array, v) == << array[3 * v + 1], array[3 * v + 2], array[3 * v + 3] >>

Dot(a, b) == a[1] * b[1] + a[2] * b[2] + a[3] * b[3]
Sub(a, b) == << a[1] - b[1], a[2] - b[2], a[3] - b[3] >>
Cross(a, b) ==
    << a[2] * b[3] - a[3] * b[2], a[3] * b[1] - a[1] * b[3], a[1] * b[2] - a[2] * b[1] >>

RECURSIVE SqrtBetween(_, _, _)
SqrtBetween(n, lo, hi) ==
    IF lo >= hi THEN lo
    ELSE LET mid == (lo + hi + 1) \div 2
         IN  IF mid * mid <= n THEN SqrtBetween(n, mid, hi) ELSE SqrtBetween(n, lo, mid - 1)

\* Math.sqrt, rounded down to a whole number
Sqrt(n) == SqrtBetween(n, 0, 46340)

\* Vector3.normalize: the zero vector stays zero
Normalize(v) ==
    LET length == Sqrt(Dot(v, v))
    IN  IF length = 0 THEN << 0, 0, 0 >>
        ELSE [ c \in 1..3 |-> (2 * v[c] * NormalUnit + length) \div (2 * length) ]

\* BufferGeometry.computeVertexNormals on a non-indexed geometry: every vertex
\* of a triangle gets the triangle's normalized face normal (C - B) x (A - B)
computeVertexNormals(position) ==
    [ i \in 1..Len(position) |->
        LET t == (i - 1) \div 9
            pA == VertexAt(position, 3 * t)
            pB == VertexAt(position, 3 * t + 1)
            pC == VertexAt(position, 3 * t + 2)
        IN  Normalize(Cross(Sub(pC, pB), Sub(pA, pB)))[((i - 1) % 3) + 1] ]

\* A normal attribute whose normals are all (0, 0, 1)
UniformNormals(length) ==
    [ i \in 1..length |-> IF (i - 1) % 3 = 2 THEN NormalUnit ELSE 0 ]

\* ----- the meshes
Mm == PosUnit
Triangle(a, b, c) == a \o b \o c
FaceUp == Triangle(<< 0, 0, 0 >>, << Mm, 0, 0 >>, << Mm, Mm, 0 >>)
FaceSide == Triangle(<< Mm, Mm, 0 >>, << Mm, 0, 0 >>, << Mm, 0, 0 - Mm >>)
FaceSlanted == Triangle(<< 0, 0, 0 >>, << Mm, 0, 0 >>, << 0, Mm, Mm >>)
Triangles == { FaceUp, FaceSide, FaceSlanted }

\* A face of a dense scan: its vertices lie within the tolerance of each other
FaceTiny == Triangle(<< 0, 0, 0 >>, << 1, 0, 0 >>, << 0, 1, 0 >>)

\* No, two or three such faces at the origin
DenseClusters == { << >>, FaceTiny \o FaceTiny, FaceTiny \o FaceTiny \o FaceTiny }

RECURSIVE PositionArrays(_)
PositionArrays(triangles) ==
    IF triangles = 0 THEN { << >> }
    ELSE { rest \o tri : rest \in PositionArrays(triangles - 1), tri \in Triangles }

\* model.geometry: a BufferGeometry with its position and normal attributes
Geometry(id, hasPosition, position, hasNormal, normal) ==
    [ id |-> id, hasPosition |-> hasPosition, position |-> position,
      hasNormal |-> hasNormal, normal |-> normal, disposed |-> FALSE ]
NoGeometry == Geometry("none", FALSE, << >>, FALSE, << >>)

\* The geometries a loaded scan can have
MeshGeometries ==
    UNION { { Geometry("original", TRUE, position, FALSE, << >>),
              Geometry("original", TRUE, position, TRUE, UniformNormals(Len(position))),
              Geometry("original", TRUE, position, TRUE, computeVertexNormals(position)) } :
            position \in { cluster \o faces :
                             cluster \in DenseClusters,
                             faces \in UNION { PositionArrays(n) : n \in 0..MaxTriangles } } }

Geometries ==
    MeshGeometries \cup { NoGeometry, Geometry("original", FALSE, << >>, FALSE, << >>) }

\* model.userData.filename, cut into the pieces String.replace looks at
Filenames == { << >>, << "scan", ".stl" >> }

\* The selected model: a Mesh with its geometry and userData.filename
Model(geometry, filename) == [ exists |-> TRUE, geometry |-> geometry, filename |-> filename ]
NoModel == [ exists |-> FALSE, geometry |-> NoGeometry, filename |-> << >> ]
Models == { Model(g, f) : g \in Geometries, f \in Filenames } \cup { NoModel }

\* ----- solidifyModel
\* Every value of the array moved along its normal
ExtrudeOutward(positions, computedNormals, extrusionDepth) ==
    [ i \in 1..Len(positions) |-> positions[i] + (computedNormals[i] * extrusionDepth) ]

\* lines 72-87: every value of the array moved against its own normal
ExtrudeInward(positions, computedNormals, extrusionDepth) ==
    [ i \in 1..Len(positions) |-> positions[i] + ((0 - computedNormals[i]) * extrusionDepth) ]

\* The three vertices of every triangle moved one place on
RotateWinding(innerPositions) ==
    [ i \in 1..Len(innerPositions) |->
        LET t == (i - 1) \div 9
            v == ((i - 1) % 9) \div 3
            c == (i - 1) % 3
        IN  innerPositions[9 * t + 3 * ((v + 1) % 3) + c + 1] ]

\* lines 103-110: the three vertices of every triangle in reverse order
ReverseWinding(innerPositions) ==
    [ i \in 1..Len(innerPositions) |->
        LET t == (i - 1) \div 9
            v == ((i - 1) % 9) \div 3
            c == (i - 1) % 3
        IN  innerPositions[9 * t + 3 * (2 - v) + c + 1] ]

\* distance < tolerance, with tolerance = 0.1
Nearby(a, b) == Dot(Sub(a, b), Sub(a, b)) * ToleranceInverse * ToleranceInverse < PosUnit * PosUnit

\* findBoundaryVertices without the i === j test: a vertex counts itself
boundaryCountingSelf(positions) ==
    LET count == Len(positions) \div 3
        neighborCount(i) ==
            Cardinality({ j \in 0..(count - 1) :
                            Nearby(VertexAt(positions, i), VertexAt(positions, j)) })
    IN  SelectSeq([ k \in 1..count |-> k - 1 ], LAMBDA i : neighborCount(i) < BoundaryNeighbors)

\* lines 167-210
findBoundaryVertices(positions) ==
    LET count == Len(positions) \div 3
        neighborCount(i) ==
            Cardinality({ j \in 0..(count - 1) :
                            j # i /\ Nearby(VertexAt(positions, i), VertexAt(positions, j)) })
    IN  SelectSeq([ k \in 1..count |-> k - 1 ], LAMBDA i : neighborCount(i) < BoundaryNeighbors)

\* createConnectingWalls with a last segment from the last boundary vertex back
\* to the first
createClosedWalls(outerPositions, innerPositions) ==
    LET boundaryVertices == findBoundaryVertices(outerPositions)
        segments == Len(boundaryVertices)
    IN  [ k \in 1..(18 * segments) |->
            LET i == ((k - 1) \div 18) + 1
                slot == ((k - 1) % 18) \div 3
                c == ((k - 1) % 3) + 1
                idx1 == boundaryVertices[i]
                idx2 == boundaryVertices[(i % segments) + 1]
            IN  CASE slot = 0 -> VertexAt(outerPositions, idx1)[c]
                  [] slot = 1 -> VertexAt(outerPositions, idx2)[c]
                  [] slot = 2 -> VertexAt(innerPositions, idx1)[c]
                  [] slot = 3 -> VertexAt(innerPositions, idx1)[c]
                  [] slot = 4 -> VertexAt(outerPositions, idx2)[c]
                  [] OTHER -> VertexAt(innerPositions, idx2)[c] ]

\* lines 132-164
createConnectingWalls(outerPositions, innerPositions) ==
    LET boundaryVertices == findBoundaryVertices(outerPositions)
        segments == IF Len(boundaryVertices) = 0 THEN 0 ELSE Len(boundaryVertices) - 1
    IN  [ k \in 1..(18 * segments) |->
            LET i == ((k - 1) \div 18) + 1
                slot == ((k - 1) % 18) \div 3
                c == ((k - 1) % 3) + 1
                idx1 == boundaryVertices[i]
                idx2 == boundaryVertices[i + 1]
            IN  CASE slot = 0 -> VertexAt(outerPositions, idx1)[c]
                  [] slot = 1 -> VertexAt(outerPositions, idx2)[c]
                  [] slot = 2 -> VertexAt(innerPositions, idx1)[c]
                  [] slot = 3 -> VertexAt(innerPositions, idx1)[c]
                  [] slot = 4 -> VertexAt(outerPositions, idx2)[c]
                  [] OTHER -> VertexAt(innerPositions, idx2)[c] ]

\* The wall block ahead of the two surfaces
CombineWallsFirst(positions, innerPositions, wallVertices) ==
    wallVertices \o positions \o ReverseWinding(innerPositions)

\* lines 93-114: outer surface, then inner surface with reversed winding, then
\* the walls, in one Float32Array
CombineVertices(positions, innerPositions, wallVertices) ==
    positions \o ReverseWinding(innerPositions) \o wallVertices

\* What a call of solidifyModel leaves behind: the value returned (a geometry
\* or null), the model as the call left it, and the arrays built on the way
Solidified(returned, model, innerPositions, wallVertices) ==
    [ ok |-> returned.id # "none", returned |-> returned, model |-> model,
      innerPositions |-> innerPositions, wallVertices |-> wallVertices ]

solidifyModel(model, depthArgument) ==
    LET extrusionDepth == DepthParameter(depthArgument)
        originalGeometry == model.geometry
    IN  IF ~model.exists \/ originalGeometry.id = "none"
        THEN Solidified(NoGeometry, model, << >>, << >>)
        ELSE IF ~originalGeometry.hasPosition
        THEN Solidified(NoGeometry, model, << >>, << >>)
        ELSE
            LET positions == originalGeometry.position
                withNormals ==
                    IF originalGeometry.hasNormal THEN originalGeometry
                    ELSE [ originalGeometry EXCEPT !.hasNormal = TRUE,
                                                   !.normal = computeVertexNormals(positions) ]
                innerPositions == ExtrudeInward(positions, withNormals.normal, extrusionDepth)
                wallVertices == createConnectingWalls(positions, innerPositions)
                solidVertices == CombineVertices(positions, innerPositions, wallVertices)
                solidGeometry ==
                    Geometry("solid", TRUE, solidVertices, TRUE, computeVertexNormals(solidVertices))
            IN  Solidified(solidGeometry, [ model EXCEPT !.geometry = withNormals ],
                           innerPositions, wallVertices)

\* String.replace('.stl', '_solid.stl'): the first '.stl' of the name
ReplaceStl(filename) ==
    IF \E i \in 1..Len(filename) : filename[i] = ".stl"
    THEN LET first == CHOOSE i \in 1..Len(filename) :
                         /\ filename[i] = ".stl"
                         /\ \A j \in 1..(i - 1) : filename[j] # ".stl"
         IN  [ filename EXCEPT ![first] = "_solid.stl" ]
    ELSE filename

\* What a call of applySolidification leaves behind: the value returned, the
\* model, the geometry object the model had before, and solidifyModel's answer
Applied(returned, model, original, solid) ==
    [ returned |-> returned, model |-> model, original |-> original, solid |-> solid ]

applySolidification(model, depthArgument) ==
    IF ~model.exists
    THEN Applied(FALSE, model, model.geometry, Solidified(NoGeometry, model, << >>, << >>))
    ELSE
        LET solid == solidifyModel(model, depthArgument)
        IN  IF solid.ok
            THEN Applied(TRUE,
                         [ solid.model EXCEPT
                             !.geometry = solid.returned,
                             !.filename = IF solid.model.filename # << >>
                                          THEN ReplaceStl(solid.model.filename)
                                          ELSE solid.model.filename ],
                         [ solid.model.geometry EXCEPT !.disposed = TRUE ],
                         solid)
            ELSE Applied(FALSE, solid.model, solid.model.geometry, solid)

\* ------------------------------------------------------- scan-cleanup hook
\* MarginLine ids: `margin-${Date.now()}` and `auto-margin-${Date.now()}`
LineId(prefix, now) == [ prefix |-> prefix, now |-> now ]
NoLineId == LineId("null", 0)

\* A MarginLine of cleanupState.marginLines (color and thickness left out)
MarginLine(id, linePoints, isComplete) ==
    [ id |-> id, points |-> linePoints, isComplete |-> isComplete ]

\* A MarginPoint: what was clicked and Date.now() of the click
MarginPoint(position, now) == [ position |-> position, timestamp |-> now ]
ClickPositions == { "a", "b" }

\* PrepDetection results: null, or detected with its suggestedMargin
NoPrepDetection == [ exists |-> FALSE, detected |-> FALSE, suggestedMargin |-> << >> ]
PrepDetection(detected, suggestedMargin) ==
    [ exists |-> TRUE, detected |-> detected, suggestedMargin |-> suggestedMargin ]
PrepDetections ==
    { PrepDetection(FALSE, << >>), PrepDetection(TRUE, << MarginPoint("s", 0) >>) }

DrawingModes == { "manual", "assisted" }

\* useState<ScanCleanupState>({...})
InitialCleanupState ==
    [ currentStage |-> "upload", marginLines |-> << >>, activeMarginLine |-> NoLineId,
      prepDetection |-> NoPrepDetection, isDrawingMargin |-> FALSE,
      marginDrawingMode |-> "manual" ]

\* marginLines.map(line => line.id === activeMarginLine ? {...line, points: [...line.points, marginPoint]} : line)
AppendToActive(lines, active, marginPoint) ==
    [ k \in 1..Len(lines) |->
        IF lines[k].id = active
        THEN [ lines[k] EXCEPT !.points = Append(lines[k].points, marginPoint) ]
        ELSE lines[k] ]

\* marginLines.map(line => line.id === activeMarginLine ? {...line, isComplete: true} : line)
CompleteActive(lines, active) ==
    [ k \in 1..Len(lines) |->
        IF lines[k].id = active THEN [ lines[k] EXCEPT !.isComplete = TRUE ] ELSE lines[k] ]

\* marginLines.filter(line => line.id !== lineId)
WithoutLine(lines, lineId) == SelectSeq(lines, LAMBDA line : line.id # lineId)

\* No run of detectPrepAreas
NoPrepRun ==
    [ phase |-> "idle", vertices |-> 0, ringUpTo |-> 0, i |-> 0, stepSize |-> 0,
      candidates |-> 0, detected |-> FALSE, confidence |-> 0, suggested |-> 0 ]

\* Triangle counts of the loaded STL files: none, one face, a cube, and meshes
\* of 51, 99 and 102 vertices
PrepTriangleCounts == { 0, 1, 12, 17, 33, 34 }

\* The vertices below this index lie in the ring around the centre
RingLimits == { 0, 10, 11, 200 }

\* relativeDistance of vertex v in tenths: distanceFromCenter / (size.length() / 2)
RelativeTenths(ringUpTo, v) == IF v < ringUpTo THEN 5 ELSE 9

\* relativeDistance > 0.3 && relativeDistance < 0.8
InRing(ringUpTo, v) ==
    RelativeTenths(ringUpTo, v) > RingInner /\ RelativeTenths(ringUpTo, v) < RingOuter

Smaller(a, b) == IF a < b THEN a ELSE b

\* ------------------------------------------------ inputs of the curve engine
\* Point k of a test list; coordinates within three millimetres of the origin
CurvePoint(k, shape) ==
    [ id |-> k,
      x |-> Num((((k * k + shape) % 7) - 3) * Unit),
      y |-> Num((((3 * k) % 5) - 2) * Unit),
      z |-> Num(((k + shape) % 3) * (Unit \div 2)),
      confidence |-> 8 * (Unit \div 10) + k ]

CurvePointList(n, shape) == [ k \in 1..n |-> CurvePoint(k, shape) ]

CurveLengths == 0..MaxCurvePoints \cup { LongCurve }
CurvePointLists == { CurvePointList(n, shape) : n \in CurveLengths, shape \in {0, 1} }

\* What points[k] gives for a k outside the array
Undefined == [ none |-> TRUE ]

\* No call of the curve engine
NoCurveRun ==
    [ phase |-> "idle", points |-> << >>, smoothness |-> InitialSmoothness, step |-> 0,
      smoothed |-> << >>, sample |-> Undefined, curve |-> NoCurve ]

\* ---------------------------------------------------------------- the state
VARIABLES
    serviceLoaded,       \* window.modelingBackendService exists
    hasGeometry,         \* getCurrentModelGeometry() returns a geometry
    probe,               \* checkBackendHealth: none, pending, ok, http_error, network_error
    isBackendAvailable,  \* ModelingBackendService.isBackendAvailable
    points,              \* marginData.points
    curve,               \* marginData.curve
    smoothness,          \* marginData.settings.smoothness
    marginStatus,        \* #marginStatus textContent
    autoBtnDisabled,     \* #autoDetectMargin disabled
    refineBtnDisabled,   \* #refineDetection disabled
    exportBtnDisabled,   \* #exportMarginPts disabled
    nextBtnDisabled,     \* #nextToDesignBtn disabled
    detectReqs,          \* auto-detect requests not yet settled
    refineTimers,        \* armed setTimeout callbacks of refineMarginDetection
    exportTimers,        \* armed setTimeout callbacks of exportMarginPts
    lastDetect,          \* what the last settled auto-detect obtained
    lastRefine,          \* what the last refine did
    lastImport,          \* what the last import read and produced
    lastFile,            \* the last downloaded file
    lastAlert,           \* the last alert() message
    uncaught,            \* handlers an exception escaped from
    ops,                 \* user commands so far
    marginLines,         \* cleanupState.marginLines of the scan-cleanup hook
    ptsOrigin,           \* codec run: what is being exchanged (file, store, hook)
    ptsSource,           \* codec run: the point list handed to the writer
    ptsText,             \* codec run: the .PTS text
    ptsParsed,           \* codec run: the list the reader produced
    ptsPhase,            \* codec run: input, written, parsed
    currentStage,        \* DentalWorkflowManager.currentStage
    model,               \* the model handed to the modelling tools
    depthArgument,       \* the extrusionDepth argument of the call
    solidPhase,          \* solidification run: idle, input, solidified, applied
    lastSolid,           \* what the last solidification call took and left behind
    cleanupState,        \* useScanCleanup: cleanupState
    dateNow,             \* what Date.now() returns
    hookOps,             \* calls of the hook's functions so far
    prepRun,             \* a run of detectPrepAreas: its mesh, loop position and result
    curveRun             \* a call of the curve engine: its arguments and what it returned

vars ==
    << serviceLoaded, hasGeometry, probe, isBackendAvailable, points, curve, smoothness,
       marginStatus, autoBtnDisabled, refineBtnDisabled, exportBtnDisabled, nextBtnDisabled,
       detectReqs, refineTimers, exportTimers, lastDetect, lastRefine, lastImport, lastFile,
       lastAlert, uncaught, ops, marginLines, ptsOrigin, ptsSource, ptsText, ptsParsed,
       ptsPhase, currentStage, model, depthArgument, solidPhase, lastSolid,
       cleanupState, dateNow, hookOps, prepRun, curveRun >>

codecVars == << marginLines, ptsOrigin, ptsSource, ptsText, ptsParsed, ptsPhase >>
\* What the handlers of the margin stage never write
outerVars ==
    << codecVars, currentStage, model, depthArgument, solidPhase, lastSolid,
       cleanupState, dateNow, hookOps, prepRun, curveRun >>
scanVars == << cleanupState, dateNow, hookOps, prepRun >>
solidVars == << model, depthArgument, solidPhase, lastSolid >>
envVars == << serviceLoaded, hasGeometry >>
probeVars == << probe, isBackendAvailable >>
logVars == << lastDetect, lastRefine, lastImport, lastFile, lastAlert, uncaught >>

NoFile == [name |-> "", text |-> << >>, written |-> 0]
NoDetect == [path |-> "none", via |-> "none", probeFailed |-> FALSE, settled |-> "none", success |-> FALSE,
             source |-> "none", count |-> 0, density |-> 0, confidences |-> {}]
NoRefine == [state |-> "none", before |-> << >>, after |-> << >>, smoothness |-> 0]
NoImport == [seq |-> 0, text |-> << >>, count |-> 0, outcome |-> "none"]

ProbeFailed == probe \in {"http_error", "network_error"}

\* DentalWorkflowManager.validateMarginCompletion
validateMarginCompletion(pts) == Len(pts) >= MinComplete

\* The status with the threshold taken one too high
StatusTextOffByOne(pointCount) ==
    IF pointCount = 0 THEN "Not Defined"
    ELSE IF pointCount <= MinComplete THEN "Incomplete"
    ELSE "Complete"

\* DentalWorkflowManager.updateMarginStatus: the three DOM writes
StatusText(pointCount) ==
    IF pointCount = 0 THEN "Not Defined"
    ELSE IF pointCount < MinComplete THEN "Incomplete"
    ELSE "Complete"

NextDisabled(pointCount) == pointCount < MinComplete

ExportDisabled(pointCount) == pointCount = 0

updateMarginStatus(pts) ==
    /\ marginStatus' = StatusText(Len(pts))
    /\ nextBtnDisabled' = NextDisabled(Len(pts))
    /\ exportBtnDisabled' = ExportDisabled(Len(pts))

\* The margin stage right after initializeMarginStage
InitStage ==
    /\ probe = IF serviceLoaded THEN "pending" ELSE "none"
    /\ isBackendAvailable = FALSE
    /\ points = << >>
    /\ curve = NoCurve
    /\ smoothness = InitialSmoothness
    /\ marginStatus = "Not Defined"
    /\ autoBtnDisabled = FALSE
    /\ refineBtnDisabled = TRUE
    /\ exportBtnDisabled = TRUE
    /\ nextBtnDisabled = TRUE
    /\ detectReqs = << >>
    /\ refineTimers = 0
    /\ exportTimers = 0
    /\ lastDetect = NoDetect
    /\ lastRefine = NoRefine
    /\ lastImport = NoImport
    /\ lastFile = NoFile
    /\ lastAlert = "none"
    /\ uncaught = {}
    /\ ops = 0
    /\ currentStage = MarginStage

InitCodecIdle ==
    /\ marginLines = << >>
    /\ ptsOrigin = "none"
    /\ ptsSource = << >>
    /\ ptsText = << >>
    /\ ptsParsed = << >>
    /\ ptsPhase = "idle"

\* No call of the modelling tools yet
NoSolid ==
    [ input |-> NoModel,
      call |-> Applied(FALSE, NoModel, NoGeometry, Solidified(NoGeometry, NoModel, << >>, << >>)) ]

InitSolidIdle ==
    /\ model = NoModel
    /\ depthArgument = UndefinedDepth
    /\ solidPhase = "idle"
    /\ lastSolid = NoSolid

\* The scan-cleanup hook right after it is mounted
InitHook ==
    /\ cleanupState = InitialCleanupState
    /\ dateNow = 1
    /\ hookOps = 0

InitScanIdle ==
    /\ InitHook
    /\ prepRun = NoPrepRun
    /\ curveRun = NoCurveRun

Init ==
    /\ serviceLoaded \in BOOLEAN
    /\ hasGeometry \in BOOLEAN
    /\ InitStage
    /\ InitCodecIdle
    /\ InitSolidIdle
    /\ InitScanIdle

\* ------------------------------------------------- detection service adapter
\* ModelingBackendService.checkBackendHealth, once the probe request settles
CheckBackendHealth ==
    /\ probe = "pending"
    /\ \E outcome \in {"ok", "http_error", "network_error"} :
         /\ probe' = outcome
         /\ isBackendAvailable' = IF outcome = "ok" THEN TRUE
                                  ELSE IF outcome = "network_error" THEN FALSE
                                  ELSE isBackendAvailable
    /\ UNCHANGED << envVars, outerVars, points, curve, smoothness, marginStatus, autoBtnDisabled,
                    refineBtnDisabled, exportBtnDisabled, nextBtnDisabled, detectReqs,
                    refineTimers, exportTimers, logVars, ops >>

\* A settled detectMarginEdge promise
Resolved(r) ==
    [ settled |-> "resolved", success |-> r.success, points |-> r.points,
      count |-> r.count, source |-> r.source ]

Rejected ==
    [ settled |-> "rejected", success |-> FALSE, points |-> << >>, count |-> 0,
      source |-> "none" ]

\* detectMarginEdge: if (!this.isBackendAvailable) return this.fallbackMarginDetection(...)
detectUnavailable(density, stream) == Resolved(fallbackMarginDetection(density, stream))

\* A catch block that rethrows instead of falling back
detectCatchRethrows(density, stream) == Rejected

\* detectMarginEdge: catch (error) { return this.fallbackMarginDetection(...) }
detectCatch(density, stream) == Resolved(fallbackMarginDetection(density, stream))

\* detectMarginEdge: if (result.success) return result
detectReturn(n) == Resolved(ExternalDetectResult(n))

DetectLog(path, via, req, res) ==
    [ path |-> path, via |-> via, probeFailed |-> req.probeFailed, settled |-> res.settled,
      success |-> res.success, source |-> res.source, count |-> res.count,
      density |-> req.density,
      confidences |-> { res.points[i].confidence : i \in 1..Len(res.points) } ]

\* autoDetectMarginEdge: .then / .catch / .finally on detectMarginEdge's promise
DetectHandler(promise, req, via) ==
    \E res \in {promise} :
      /\ IF res.settled = "resolved" /\ res.success
         THEN /\ points' = res.points
              /\ updateMarginStatus(res.points)
              /\ refineBtnDisabled' = FALSE
              /\ lastAlert' = lastAlert
         ELSE /\ lastAlert' = "Automatic detection failed. Please place points manually."
              /\ UNCHANGED << points, marginStatus, nextBtnDisabled, exportBtnDisabled,
                              refineBtnDisabled >>
      /\ autoBtnDisabled' = FALSE
      /\ lastDetect' = DetectLog("adapter", via, req, res)
      /\ UNCHANGED << curve, lastRefine, lastImport, lastFile, uncaught >>

\* autoDetectMarginEdge: .then / .finally on runMarginDetectionAlgorithm's promise
SimulatedHandler(promise, req) ==
    \E detectedPoints \in {promise} :
      /\ points' = detectedPoints
      /\ updateMarginStatus(detectedPoints)
      /\ autoBtnDisabled' = FALSE
      /\ lastDetect' =
           DetectLog("simulated", "simulated", req,
                     [ settled |-> "resolved", success |-> TRUE, points |-> detectedPoints,
                       count |-> Len(detectedPoints), source |-> "absent" ])
      /\ UNCHANGED << curve, refineBtnDisabled, lastRefine, lastImport, lastFile, lastAlert,
                      uncaught >>

\* A handler that leaves the button enabled while it detects
detectingLeftEnabled == FALSE

\* autoDetectMarginEdge: autoBtn.disabled = true
detectingDisabled == TRUE

\* DentalWorkflowManager.autoDetectMarginEdge, the click handler of #autoDetectMargin
AutoDetectMarginEdge ==
    /\ ops < MaxOps
    /\ ~autoBtnDisabled
    /\ ops' = ops + 1
    /\ \E density \in DensitySet, stream \in Streams, encodes \in BOOLEAN :
         LET req == [phase |-> "fetch", density |-> density, probeFailed |-> ProbeFailed]
         IN  IF serviceLoaded /\ hasGeometry /\ ~isBackendAvailable
             THEN /\ DetectHandler(detectUnavailable(density, stream), req, "unavailable")
                  /\ UNCHANGED detectReqs
             ELSE IF serviceLoaded /\ hasGeometry /\ ~encodes
             THEN /\ DetectHandler(detectCatch(density, stream), req, "encode_error")
                  /\ UNCHANGED detectReqs
             ELSE IF serviceLoaded /\ hasGeometry
             THEN /\ detectReqs' = Append(detectReqs, req)
                  /\ autoBtnDisabled' = detectingDisabled
                  /\ UNCHANGED << points, curve, marginStatus, refineBtnDisabled,
                                  exportBtnDisabled, nextBtnDisabled, logVars >>
             ELSE IF serviceLoaded
             THEN /\ SimulatedHandler(runMarginDetectionAlgorithm(density, stream), req)
                  /\ UNCHANGED detectReqs
             ELSE /\ detectReqs' = Append(detectReqs, [req EXCEPT !.phase = "timer"])
                  /\ autoBtnDisabled' = detectingDisabled
                  /\ UNCHANGED << points, curve, marginStatus, refineBtnDisabled,
                                  exportBtnDisabled, nextBtnDisabled, logVars >>
    /\ UNCHANGED << envVars, outerVars, probeVars, smoothness, refineTimers, exportTimers >>

RemoveAt(seq, i) == SubSeq(seq, 1, i - 1) \o SubSeq(seq, i + 1, Len(seq))

\* autoDetectMarginEdge: the setTimeout(..., 2000) callback
DetectTimeout ==
    /\ \E i \in 1..Len(detectReqs), density \in DensitySet, stream \in Streams :
         /\ detectReqs[i].phase = "timer"
         /\ detectReqs' = RemoveAt(detectReqs, i)
         /\ SimulatedHandler(runMarginDetectionAlgorithm(density, stream),
                             [detectReqs[i] EXCEPT !.density = density])
    /\ UNCHANGED << envVars, outerVars, probeVars, smoothness, refineTimers, exportTimers, ops >>

\* detectMarginEdge: await fetch(`${this.baseUrl}/margin/detect`) settles
DetectFetchSettles ==
    /\ \E i \in 1..Len(detectReqs), outcome \in {"network_error", "http_error", "ok"},
          stream \in Streams :
         /\ detectReqs[i].phase = "fetch"
         /\ IF outcome = "ok"
            THEN /\ detectReqs' = [detectReqs EXCEPT ![i].phase = "json"]
                 /\ UNCHANGED << points, curve, marginStatus, autoBtnDisabled,
                                 refineBtnDisabled, exportBtnDisabled, nextBtnDisabled,
                                 logVars >>
            ELSE /\ detectReqs' = RemoveAt(detectReqs, i)
                 /\ DetectHandler(detectCatch(detectReqs[i].density, stream),
                                  detectReqs[i], outcome)
    /\ UNCHANGED << envVars, outerVars, probeVars, smoothness, refineTimers, exportTimers, ops >>

\* detectMarginEdge: await response.json() settles
DetectJsonSettles ==
    /\ \E i \in 1..Len(detectReqs), outcome \in {"bad_json", "success_false", "success_true"},
          stream \in Streams, n \in ExternalCounts :
         /\ detectReqs[i].phase = "json"
         /\ detectReqs' = RemoveAt(detectReqs, i)
         /\ IF outcome = "success_true"
            THEN DetectHandler(detectReturn(n), detectReqs[i], outcome)
            ELSE DetectHandler(detectCatch(detectReqs[i].density, stream),
                               detectReqs[i], outcome)
    /\ UNCHANGED << envVars, outerVars, probeVars, smoothness, refineTimers, exportTimers, ops >>

\* ------------------------------------------------------------------ refine
\* DentalWorkflowManager.refineMarginDetection, the click handler of
\* #refineDetection.  ModelingBackendService has no refineMarginPoints method:
\* with the service object present the call throws a TypeError before any
\* promise exists, so neither .catch nor .finally is attached.
RefineMarginDetection ==
    /\ ops < MaxOps
    /\ ~refineBtnDisabled
    /\ ops' = ops + 1
    /\ IF Len(points) = 0
       THEN /\ lastAlert' = "No margin points to refine. Please detect or place points first."
            /\ UNCHANGED << refineBtnDisabled, refineTimers, lastRefine, uncaught >>
       ELSE /\ refineBtnDisabled' = TRUE
            /\ lastAlert' = lastAlert
            /\ IF serviceLoaded
               THEN /\ uncaught' = uncaught \cup {"refineMarginDetection"}
                    /\ lastRefine' = [state |-> "threw", before |-> points, after |-> << >>,
                                      smoothness |-> smoothness]
                    /\ UNCHANGED refineTimers
               ELSE /\ refineTimers' = refineTimers + 1
                    /\ lastRefine' = [state |-> "armed", before |-> points, after |-> << >>,
                                      smoothness |-> smoothness]
                    /\ UNCHANGED uncaught
    /\ UNCHANGED << envVars, outerVars, probeVars, points, curve, smoothness, marginStatus,
                    autoBtnDisabled, exportBtnDisabled, nextBtnDisabled, detectReqs,
                    exportTimers, lastDetect, lastImport, lastFile >>

\* refineMarginDetection: the setTimeout(..., 1000) callback
RefineTimeout ==
    /\ refineTimers > 0
    /\ refineTimers' = refineTimers - 1
    /\ points' = smoothMarginPoints(points, smoothness)
    /\ refineBtnDisabled' = FALSE
    /\ lastRefine' = [state |-> "smoothed", before |-> points,
                      after |-> smoothMarginPoints(points, smoothness),
                      smoothness |-> smoothness]
    /\ UNCHANGED << envVars, outerVars, probeVars, curve, smoothness, marginStatus, autoBtnDisabled,
                    exportBtnDisabled, nextBtnDisabled, detectReqs, exportTimers,
                    lastDetect, lastImport, lastFile, lastAlert, uncaught, ops >>

\* ------------------------------------------------------------------ export
\* DentalWorkflowManager.exportMarginPts, the click handler of #exportMarginPts.
\* ModelingBackendService has no exportMarginPts method: with the service
\* object present the call throws a TypeError.
ExportMarginPts ==
    /\ ops < MaxOps
    /\ ~exportBtnDisabled
    /\ ops' = ops + 1
    /\ IF Len(points) = 0
       THEN /\ lastAlert' = "No margin points to export."
            /\ UNCHANGED << exportBtnDisabled, exportTimers, uncaught >>
       ELSE /\ exportBtnDisabled' = TRUE
            /\ lastAlert' = lastAlert
            /\ IF serviceLoaded
               THEN /\ uncaught' = uncaught \cup {"exportMarginPts"}
                    /\ UNCHANGED exportTimers
               ELSE /\ exportTimers' = exportTimers + 1
                    /\ UNCHANGED uncaught
    /\ UNCHANGED << envVars, outerVars, probeVars, points, curve, smoothness, marginStatus,
                    autoBtnDisabled, refineBtnDisabled, nextBtnDisabled, detectReqs,
                    refineTimers, lastDetect, lastRefine, lastImport, lastFile >>

\* exportMarginPts: the setTimeout(..., 500) callback
ExportTimeout ==
    /\ exportTimers > 0
    /\ exportTimers' = exportTimers - 1
    /\ lastFile' = fallbackExportMarginPts(points, CaseNumber, ToothNumber)
    /\ exportBtnDisabled' = FALSE
    /\ UNCHANGED << envVars, outerVars, probeVars, points, curve, smoothness, marginStatus,
                    autoBtnDisabled, refineBtnDisabled, nextBtnDisabled, detectReqs,
                    refineTimers, lastDetect, lastRefine, lastImport, lastAlert, uncaught,
                    ops >>

\* ------------------------------------------------------------------ import
\* What importMarginPts parses out of each input file
WorkflowImports == { [text |-> text, imported |-> ImportedPoints(text)] : text \in WorkflowFiles }

\* DentalWorkflowManager.importMarginPts, from the moment file.text() settles
\* (nothing of the store is read before that)
ImportMarginPts ==
    /\ ops < MaxOps
    /\ ops' = ops + 1
    /\ \/ /\ lastAlert' = "Failed to import file. Please check the file format."
          /\ lastImport' = [seq |-> ops + 1, text |-> << >>, count |-> 0,
                            outcome |-> "read_error"]
          /\ UNCHANGED << points, marginStatus, nextBtnDisabled, exportBtnDisabled >>
       \/ \E file \in WorkflowImports :
            LET text == file.text
                imported == file.imported
            IN
            IF Len(imported) > 0
            THEN /\ points' = imported
                 /\ updateMarginStatus(imported)
                 /\ lastAlert' = lastAlert
                 /\ lastImport' = [seq |-> ops + 1, text |-> text,
                                   count |-> Len(imported), outcome |-> "replaced"]
            ELSE /\ lastAlert' = "No valid points found in file."
                 /\ lastImport' = [seq |-> ops + 1, text |-> text,
                                   count |-> Len(imported), outcome |-> "rejected"]
                 /\ UNCHANGED << points, marginStatus, nextBtnDisabled, exportBtnDisabled >>
    /\ UNCHANGED << envVars, outerVars, probeVars, curve, smoothness, autoBtnDisabled,
                    refineBtnDisabled, detectReqs, refineTimers, exportTimers, lastDetect,
                    lastRefine, lastFile, uncaught >>

\* ------------------------------------------------------- point store edits
DeleteIds == {1, 2}

\* points.splice(points.findIndex(p => p.id === pointId), 1): with no match
\* findIndex gives -1 and splice drops the last point
deleteBySplice(pts, pointId) ==
    LET hits == { i \in 1..Len(pts) : pts[i].id = pointId }
        index == IF hits = {} THEN Len(pts) ELSE CHOOSE i \in hits : \A j \in hits : i <= j
    IN  SubSeq(pts, 1, index - 1) \o SubSeq(pts, index + 1, Len(pts))

\* deleteMarginPoint: this.marginData.points.filter(p => p.id !== pointId)
deleteMarginPoint(pts, pointId) == SelectSeq(pts, LAMBDA p : p.id # pointId)

\* DentalWorkflowManager.deleteMarginPoint(pointId): the store and the status
DeletePoint(pointId) ==
    /\ points' = deleteMarginPoint(points, pointId)
    /\ updateMarginStatus(deleteMarginPoint(points, pointId))

\* DentalWorkflowManager.deleteMarginPoint, from the point list's delete button
DeleteMarginPoint ==
    /\ ops < MaxOps
    /\ ops' = ops + 1
    /\ \E pointId \in DeleteIds : DeletePoint(pointId)
    /\ UNCHANGED << envVars, outerVars, probeVars, curve, smoothness, autoBtnDisabled,
                    refineBtnDisabled, detectReqs, refineTimers, exportTimers, logVars >>

\* A clear that empties the list and forgets the cached curve
clearKeepsCurve == [points |-> << >>, curve |-> curve]

\* clearMarginPoints: this.marginData.points = []; this.marginData.curve = null
clearMarginPoints == [points |-> << >>, curve |-> NoCurve]

\* DentalWorkflowManager.clearMarginPoints, after confirm('Clear all margin points?')
ClearMarginPoints ==
    /\ ops < MaxOps
    /\ ops' = ops + 1
    /\ points' = clearMarginPoints.points
    /\ curve' = clearMarginPoints.curve
    /\ updateMarginStatus(clearMarginPoints.points)
    /\ UNCHANGED << envVars, outerVars, probeVars, smoothness, autoBtnDisabled,
                    refineBtnDisabled, detectReqs, refineTimers, exportTimers, logVars >>

\* The 'input' handler of #marginSmoothness, with updateMarginCurve
SetSmoothness ==
    /\ ops < MaxOps
    /\ ops' = ops + 1
    /\ curve' = IF Len(points) > 2 THEN generateMarginCurve(points) ELSE curve
    /\ \E value \in SmoothnessSet : smoothness' = value
    /\ UNCHANGED << envVars, outerVars, probeVars, points, marginStatus, autoBtnDisabled,
                    refineBtnDisabled, exportBtnDisabled, nextBtnDisabled, detectReqs,
                    refineTimers, exportTimers, logVars >>

\* ------------------------------------------------------- stage navigation
\* Everything of the margin stage but the last alert
marginVars ==
    << envVars, probeVars, points, curve, smoothness, marginStatus, autoBtnDisabled,
       refineBtnDisabled, exportBtnDisabled, nextBtnDisabled, detectReqs, refineTimers,
       exportTimers, lastDetect, lastRefine, lastImport, lastFile, uncaught, ops >>

\* DentalWorkflowManager.showStage: this.currentStage = stageNumber
showStage(stageNumber) == currentStage' = stageNumber

\* The click handler of #nextToDesignBtn (a disabled button gets no click)
NextToDesignButton ==
    /\ currentStage = MarginStage
    /\ ~nextBtnDisabled
    /\ IF validateMarginCompletion(points)
       THEN showStage(MarginStage + 1) /\ UNCHANGED lastAlert
       ELSE /\ lastAlert' = "Please define margin points before proceeding to crown design."
            /\ UNCHANGED currentStage
    /\ UNCHANGED << marginVars, codecVars, solidVars, scanVars, curveRun >>

\* DentalWorkflowManager.nextStage, the click handler of #workflowNextBtn
WorkflowNextButton ==
    /\ IF currentStage + 1 <= LastStage
       THEN showStage(currentStage + 1)
       ELSE UNCHANGED currentStage
    /\ UNCHANGED << marginVars, codecVars, solidVars, scanVars, curveRun, lastAlert >>

\* createProgressBar: the click handler of the tab of stage tab.num
ProgressTab ==
    /\ \E num \in 1..(MarginStage + 1) : showStage(num)
    /\ UNCHANGED << marginVars, codecVars, solidVars, scanVars, curveRun, lastAlert >>

\* The back and continue buttons of the stages: #orderForm submit,
\* #nextToMarginBtn, #backToScanBtn, #backToMarginBtn, #nextToFinalizeBtn,
\* #backToDesignBtn
StageButton ==
    /\ \/ currentStage = 1 /\ showStage(2)
       \/ currentStage = 2 /\ showStage(MarginStage)
       \/ currentStage = MarginStage /\ showStage(2)
       \/ currentStage = MarginStage + 1 /\ showStage(MarginStage)
       \/ currentStage = MarginStage + 1 /\ showStage(LastStage)
       \/ currentStage = LastStage /\ showStage(MarginStage + 1)
    /\ UNCHANGED << marginVars, codecVars, solidVars, scanVars, curveRun, lastAlert >>

\* The workflow with its stages; the point store is edited in the margin stage
NextNav ==
    \/ NextToDesignButton
    \/ WorkflowNextButton
    \/ ProgressTab
    \/ StageButton
    \/ currentStage = MarginStage /\ ImportMarginPts
    \/ currentStage = MarginStage /\ DeleteMarginPoint
    \/ currentStage = MarginStage /\ ClearMarginPoints

NavSpec == Init /\ [][NextNav]_vars

\* ------------------------------------------------------------ specification
Next ==
    \/ CheckBackendHealth
    \/ AutoDetectMarginEdge
    \/ DetectTimeout
    \/ DetectFetchSettles
    \/ DetectJsonSettles
    \/ RefineMarginDetection
    \/ ExportMarginPts
    \/ ExportTimeout
    \/ ImportMarginPts
    \/ DeleteMarginPoint
    \/ ClearMarginPoints
    \/ SetSmoothness

Spec == Init /\ [][Next]_vars

\* Auto-detect alone.  No other action of Next writes detectReqs, lastDetect
\* or autoBtnDisabled, so on these variables Spec and FairDetectSpec agree.
NextDetect ==
    \/ CheckBackendHealth
    \/ AutoDetectMarginEdge
    \/ DetectTimeout
    \/ DetectFetchSettles
    \/ DetectJsonSettles

\* The transport settles every request and the browser fires every armed timer
FairDetectSpec ==
    /\ Init /\ [][NextDetect]_vars
    /\ WF_vars(DetectTimeout)
    /\ WF_vars(DetectFetchSettles)
    /\ WF_vars(DetectJsonSettles)

\* ------------------------------------------------------- the .PTS codec alone
\* A margin point of the hook: position and normal are THREE.Vector3 clones
HookPoint(k, j) ==
    [ id |-> << "point", k, j >>,
      position |-> [ x |-> Num(k * 10000000 + j * 1234567 + 4),
                     y |-> Num(0 - j * 2345678 - 5),
                     z |-> Num(j * 3456789 + k) ],
      normal |-> IF j % 2 = 1
                 THEN [ x |-> Num(0), y |-> Num(0), z |-> Num(Unit) ]
                 ELSE [ x |-> Num(6 * (Unit \div 10)), y |-> Num(0),
                        z |-> Num(0 - 8 * (Unit \div 10)) ],
      timestamp |-> k * 100 + j ]

\* A margin line as startMarginDrawing / addMarginPoint / completeMarginLine leave it
HookLine(k, n) ==
    [ id |-> << "margin", k >>,
      points |-> [ j \in 1..n |-> HookPoint(k, j) ],
      isComplete |-> TRUE,
      color |-> "#ff6b6b",
      thickness |-> 2 ]

HookLineSets ==
    {<< >>}
    \cup { << HookLine(1, n) >> : n \in 0..MaxLinePoints }
    \cup { << HookLine(1, n), HookLine(2, m) >> : n \in 0..MaxLinePoints, m \in 0..MaxLinePoints }

\* Point lists the margin stage can hold when the user exports
StorePointLists ==
    { fallbackMarginDetection(d, st).points : d \in DensitySet, st \in Streams }
    \cup { smoothMarginPoints(runMarginDetectionAlgorithm(d, st), sm) :
             d \in DensitySet, st \in Streams, sm \in SmoothnessSet }
    \cup { ExternalPoints(n) : n \in ExternalCounts }
    \cup { ImportedPoints(f) : f \in InputFiles }

InitCodec ==
    /\ serviceLoaded = FALSE
    /\ hasGeometry = FALSE
    /\ InitStage
    /\ InitSolidIdle
    /\ InitScanIdle
    /\ ptsParsed = << >>
    /\ ptsPhase = "input"
    /\ \/ /\ ptsOrigin = "hook"
          /\ marginLines \in HookLineSets
          /\ ptsSource = << >>
          /\ ptsText = << >>
       \/ /\ ptsOrigin = "store"
          /\ ptsSource \in StorePointLists
          /\ ptsText = << >>
          /\ marginLines = << >>
       \/ /\ ptsOrigin = "file"
          /\ ptsText \in InputFiles
          /\ ptsSource = << >>
          /\ marginLines = << >>

mainVars ==
    << serviceLoaded, hasGeometry, probe, isBackendAvailable, points, curve, smoothness,
       marginStatus, autoBtnDisabled, refineBtnDisabled, exportBtnDisabled, nextBtnDisabled,
       detectReqs, refineTimers, exportTimers, lastDetect, lastRefine, lastImport, lastFile,
       lastAlert, uncaught, ops, currentStage, model, depthArgument, solidPhase, lastSolid,
       cleanupState, dateNow, hookOps, prepRun, curveRun >>

\* fallbackExportMarginPts applied to the list
WriteStorePts ==
    /\ ptsPhase = "input"
    /\ ptsOrigin = "store"
    /\ ptsText' = fallbackExportMarginPts(ptsSource, CaseNumber, ToothNumber).text
    /\ ptsPhase' = "written"
    /\ UNCHANGED << mainVars, marginLines, ptsOrigin, ptsSource, ptsParsed >>

\* exportPtsFile applied to the margin lines
WriteHookPts ==
    /\ ptsPhase = "input"
    /\ ptsOrigin = "hook"
    /\ ptsText' = exportPtsFile(marginLines)
    /\ ptsPhase' = "written"
    /\ UNCHANGED << mainVars, marginLines, ptsOrigin, ptsSource, ptsParsed >>

\* importMarginPts applied to the text
ReadPts ==
    /\ \/ ptsPhase = "written"
       \/ ptsPhase = "input" /\ ptsOrigin = "file"
    /\ ptsParsed' = ImportedPoints(ptsText)
    /\ ptsPhase' = "parsed"
    /\ UNCHANGED << mainVars, marginLines, ptsOrigin, ptsSource, ptsText >>

NextCodec ==
    \/ WriteStorePts
    \/ WriteHookPts
    \/ ReadPts

CodecSpec == InitCodec /\ [][NextCodec]_vars

\* ------------------------------------------- the modelling tools on their own
\* One call of the modelling tools on a model and a depth
InitSolid ==
    /\ serviceLoaded = FALSE
    /\ hasGeometry = FALSE
    /\ InitStage
    /\ InitCodecIdle
    /\ InitScanIdle
    /\ model \in Models
    /\ depthArgument \in Depths
    /\ solidPhase = "input"
    /\ lastSolid = NoSolid

\* ModelingTools.solidifyModel(model, extrusionDepth), called by itself
SolidifyModel ==
    /\ solidPhase = "input"
    /\ \E solid \in { solidifyModel(model, depthArgument) } :
          /\ model' = solid.model
          /\ lastSolid' = [ input |-> model,
                            call |-> Applied(solid.ok, solid.model, solid.model.geometry, solid) ]
    /\ solidPhase' = "solidified"
    /\ UNCHANGED << marginVars, codecVars, scanVars, curveRun, lastAlert, currentStage, depthArgument >>

\* ModelingTools.applySolidification(model, extrusionDepth); no saveUndoState
\* is defined in the repository, so typeof saveUndoState is 'undefined'
ApplySolidification ==
    /\ solidPhase = "input"
    /\ \E applied \in { applySolidification(model, depthArgument) } :
          /\ model' = applied.model
          /\ lastSolid' = [ input |-> model, call |-> applied ]
    /\ solidPhase' = "applied"
    /\ UNCHANGED << marginVars, codecVars, scanVars, curveRun, lastAlert, currentStage, depthArgument >>

NextSolid ==
    \/ SolidifyModel
    \/ ApplySolidification

SolidSpec == InitSolid /\ [][NextSolid]_vars

\* ---------------------------------------------- the scan-cleanup hook's calls
restVars == << marginVars, codecVars, solidVars, lastAlert, currentStage, curveRun >>

InitHookSpec ==
    /\ serviceLoaded = FALSE
    /\ hasGeometry = FALSE
    /\ InitStage
    /\ InitCodecIdle
    /\ InitSolidIdle
    /\ InitScanIdle

\* One more call of a function of the hook
HookCall ==
    /\ hookOps < MaxHookOps
    /\ hookOps' = hookOps + 1
    /\ UNCHANGED << restVars, dateNow, prepRun >>

\* The clock moves on by a millisecond
ClockTick ==
    /\ dateNow < MaxClock
    /\ dateNow' = dateNow + 1
    /\ UNCHANGED << restVars, cleanupState, hookOps, prepRun >>

\* startMarginDrawing(mode)
StartMarginDrawing ==
    /\ HookCall
    /\ \E mode \in DrawingModes :
          LET newMarginLine == MarginLine(LineId("margin", dateNow), << >>, FALSE)
          IN  cleanupState' =
                [ cleanupState EXCEPT
                    !.marginLines = Append(cleanupState.marginLines, newMarginLine),
                    !.activeMarginLine = newMarginLine.id,
                    !.isDrawingMargin = TRUE,
                    !.marginDrawingMode = mode,
                    !.currentStage = "margin-drawing" ]

\* addMarginPoint(point, normal)
AddMarginPoint ==
    /\ HookCall
    /\ \E position \in ClickPositions :
          IF cleanupState.activeMarginLine = NoLineId
          THEN UNCHANGED cleanupState
          ELSE cleanupState' =
                 [ cleanupState EXCEPT
                     !.marginLines = AppendToActive(cleanupState.marginLines,
                                                    cleanupState.activeMarginLine,
                                                    MarginPoint(position, dateNow)) ]

\* completeMarginLine()
CompleteMarginLine ==
    /\ HookCall
    /\ IF cleanupState.activeMarginLine = NoLineId
       THEN UNCHANGED cleanupState
       ELSE cleanupState' =
              [ cleanupState EXCEPT
                  !.marginLines = CompleteActive(cleanupState.marginLines,
                                                 cleanupState.activeMarginLine),
                  !.activeMarginLine = NoLineId,
                  !.isDrawingMargin = FALSE,
                  !.currentStage = "review" ]

\* applyAutoDetectedMargin()
ApplyAutoDetectedMargin ==
    /\ HookCall
    /\ IF ~cleanupState.prepDetection.exists
       THEN UNCHANGED cleanupState
       ELSE LET autoMarginLine ==
                    MarginLine(LineId("auto-margin", dateNow),
                               cleanupState.prepDetection.suggestedMargin, TRUE)
            IN  cleanupState' =
                  [ cleanupState EXCEPT
                      !.marginLines = Append(cleanupState.marginLines, autoMarginLine),
                      !.currentStage = "review" ]

\* deleteMarginLine(lineId)
DeleteLine(lineId) ==
    cleanupState' =
        [ cleanupState EXCEPT !.marginLines = WithoutLine(cleanupState.marginLines, lineId) ]

DeleteMarginLine ==
    /\ HookCall
    /\ \E k \in 1..Len(cleanupState.marginLines) : DeleteLine(cleanupState.marginLines[k].id)

\* clearAllMarginLines()
ClearAllMarginLines ==
    /\ HookCall
    /\ cleanupState' =
         [ cleanupState EXCEPT
             !.marginLines = << >>,
             !.activeMarginLine = NoLineId,
             !.isDrawingMargin = FALSE ]

\* setPrepDetection(detection)
SetPrepDetection ==
    /\ HookCall
    /\ \E detection \in PrepDetections :
          cleanupState' =
            [ cleanupState EXCEPT
                !.prepDetection = detection,
                !.currentStage = IF detection.detected THEN "detection" ELSE "margin-drawing" ]

NextHook ==
    \/ ClockTick
    \/ StartMarginDrawing
    \/ AddMarginPoint
    \/ CompleteMarginLine
    \/ ApplyAutoDetectedMargin
    \/ DeleteMarginLine
    \/ ClearAllMarginLines
    \/ SetPrepDetection

HookSpec == InitHookSpec /\ [][NextHook]_vars

\* ------------------------------------------------ prep detection on its own
\* loadSTLFile has parsed a file into a mesh and is about to call detectPrepAreas
InitPrep ==
    /\ serviceLoaded = FALSE
    /\ hasGeometry = FALSE
    /\ InitStage
    /\ InitCodecIdle
    /\ InitSolidIdle
    /\ InitHook
    /\ curveRun = NoCurveRun
    /\ \E triangles \in PrepTriangleCounts, ringUpTo \in RingLimits :
          prepRun = [ NoPrepRun EXCEPT !.phase = "loaded", !.vertices = 3 * triangles,
                                      !.ringUpTo = ringUpTo ]

PrepStep == UNCHANGED << restVars, cleanupState, dateNow, hookOps >>

\* positions.length of the mesh
PositionsLength == 3 * prepRun.vertices

\* detectPrepAreas up to the start of the loop: stepSize, i = 0
DetectPrepAreas ==
    /\ prepRun.phase = "loaded"
    /\ prepRun' = [ prepRun EXCEPT
                      !.phase = "test",
                      !.stepSize = PositionsLength \div (3 * SamplePoints),
                      !.i = 0,
                      !.candidates = 0 ]
    /\ PrepStep

\* i < positions.length holds: into the loop body
PrepLoopTest ==
    /\ prepRun.phase = "test"
    /\ prepRun.i < PositionsLength
    /\ prepRun' = [ prepRun EXCEPT !.phase = "body" ]
    /\ PrepStep

\* The loop body and i += stepSize * 3
PrepLoopBody ==
    /\ prepRun.phase = "body"
    /\ prepRun' = [ prepRun EXCEPT
                      !.phase = "test",
                      !.candidates =
                          IF prepRun.i + 2 < PositionsLength
                             /\ InRing(prepRun.ringUpTo, prepRun.i \div 3)
                          THEN Smaller(prepRun.candidates + 1, MaxCandidates)
                          ELSE prepRun.candidates,
                      !.i = prepRun.i + prepRun.stepSize * 3 ]
    /\ PrepStep

\* i < positions.length fails: the return statement; confidence in hundredths
PrepReturn ==
    /\ prepRun.phase = "test"
    /\ ~(prepRun.i < PositionsLength)
    /\ prepRun' = [ prepRun EXCEPT
                      !.phase = "returned",
                      !.detected = (prepRun.candidates > DetectedAbove),
                      !.confidence = Smaller((prepRun.candidates * 100) \div SamplePoints, 100),
                      !.suggested = Smaller(prepRun.candidates, SamplePoints) ]
    /\ PrepStep

NextPrep ==
    \/ DetectPrepAreas
    \/ PrepLoopTest
    \/ PrepLoopBody
    \/ PrepReturn

\* The call runs to completion on the one JavaScript thread: a step that can be
\* taken is taken
PrepSpec == InitPrep /\ [][NextPrep]_vars /\ WF_vars(NextPrep)

\* ------------------------------------------------ the curve engine on its own
\* One call of the curve engine on a point list
InitCurve ==
    /\ serviceLoaded = FALSE
    /\ hasGeometry = FALSE
    /\ InitStage
    /\ InitCodecIdle
    /\ InitSolidIdle
    /\ InitHook
    /\ prepRun = NoPrepRun
    /\ \E pts \in CurvePointLists, weight \in SmoothnessSet, step \in 0..SampleSteps :
          curveRun = [ NoCurveRun EXCEPT !.phase = "input", !.points = pts,
                                        !.smoothness = weight, !.step = step ]

CurveCall ==
    /\ curveRun.phase = "input"
    /\ UNCHANGED << marginVars, codecVars, solidVars, scanVars, lastAlert, currentStage >>

\* smoothMarginPoints(points) with settings.smoothness
SmoothMarginPoints ==
    /\ CurveCall
    /\ curveRun' = [ curveRun EXCEPT
                       !.phase = "smoothed",
                       !.smoothed = smoothMarginPoints(curveRun.points, curveRun.smoothness) ]

\* interpolateSpline(points, t) with t = step / SampleSteps; on an empty list
\* points[-1] is undefined
InterpolateSpline ==
    /\ CurveCall
    /\ curveRun' = [ curveRun EXCEPT
                       !.phase = "sampled",
                       !.sample = IF curveRun.points = << >> THEN Undefined
                                  ELSE interpolateSpline(curveRun.points, curveRun.step,
                                                         SampleSteps) ]

\* generateMarginCurve(points)
GenerateMarginCurve ==
    /\ CurveCall
    /\ curveRun' = [ curveRun EXCEPT
                       !.phase = "curved",
                       !.curve = generateMarginCurve(curveRun.points) ]

NextCurve ==
    \/ SmoothMarginPoints
    \/ InterpolateSpline
    \/ GenerateMarginCurve

CurveSpec == InitCurve /\ [][NextCurve]_vars

TypeOK ==
    /\ ops \in 0..MaxOps
    /\ Len(detectReqs) <= 1

\* ------------------------------------------------------------------ claims
Tenth(n) == n * (Unit \div 10)

\* C1: whenever the health probe has failed, what auto-detect obtains has
\* source "fallback", as many points as the requested pointDensity and every
\* confidence within [0.7, 0.9], on every path of autoDetectMarginEdge.
C1_FallbackContract ==
    (lastDetect.path # "none" /\ lastDetect.probeFailed) =>
        /\ lastDetect.source = "fallback"
        /\ lastDetect.count = lastDetect.density
        /\ \A c \in lastDetect.confidences : Tenth(7) <= c /\ c <= Tenth(9)

DetectSettledWell ==
    lastDetect.path = "adapter" =>
        /\ lastDetect.settled = "resolved"
        /\ lastDetect.success
        /\ lastDetect.source \in {"external", "fallback"}

\* C2: every detectMarginEdge request settles, resolved with success = true
\* and source external or fallback, never rejected, whatever the probe, the
\* transport, the HTTP status or the provider's answer; once no request is
\* left the auto-detect button is enabled again.
C2_DetectAlwaysResolves ==
    /\ [](DetectSettledWell /\ (detectReqs = << >> => ~autoBtnDisabled))
    /\ (detectReqs # << >>) ~> (detectReqs = << >> /\ ~autoBtnDisabled)

C2_Witness ==
    /\ lastDetect.path = "adapter"
    /\ lastDetect.via = "success_false"
    /\ lastDetect.source = "fallback"
    /\ ~autoBtnDisabled

\* C3: refine on a non-empty store always completes: no exception escapes
\* refineMarginDetection, the store ends up holding the neighbour smoothing of
\* the previous points, and the refine button is enabled again.
C3_RefineCompletes ==
    /\ "refineMarginDetection" \notin uncaught
    /\ lastRefine.state # "none" /\ refineTimers = 0 =>
         /\ lastRefine.state = "smoothed"
         /\ lastRefine.after = smoothMarginPoints(lastRefine.before, lastRefine.smoothness)
         /\ ~refineBtnDisabled

\* C4: export of a non-empty store always produces a .PTS file: no exception
\* escapes exportMarginPts, and the export button is disabled only while the
\* local codec is still to write the file.
C4_ExportAlwaysWrites ==
    /\ "exportMarginPts" \notin uncaught
    /\ Len(points) > 0 /\ exportBtnDisabled => exportTimers > 0

\* A non-blank, non-comment line whose first three tokens are all numeric
IsNumericLine(l) ==
    /\ l.toks # << >>
    /\ l.toks[1].k # "hash"
    /\ Len(l.toks) >= 3
    /\ \A j \in 1..3 : l.toks[j].k = "num"

NumericLineCount(text) == Cardinality({ i \in DOMAIN text : IsNumericLine(text[i]) })

\* C5: import yields exactly one point per non-blank, non-comment line whose
\* first three tokens are numeric; any other line contributes no point.
C5_ImportSkipsMalformed ==
    ptsPhase = "parsed" => Len(ptsParsed) = NumericLineCount(ptsText)

\* C6: an import whose text yields no valid point is reported as an error
\* and leaves points and curve as they were; an import that yields at least
\* one point replaces the whole point set.
C6_EmptyImportRejected ==
    [][ lastImport'.seq # lastImport.seq =>
          IF lastImport'.outcome = "read_error" \/ NumericLineCount(lastImport'.text) = 0
          THEN /\ lastImport'.outcome \in {"read_error", "rejected"}
               /\ lastAlert' \in { "No valid points found in file.",
                                   "Failed to import file. Please check the file format." }
               /\ points' = points
               /\ curve' = curve
          ELSE /\ lastImport'.outcome = "replaced"
               /\ Len(points') = lastImport'.count ]_vars

RECURSIVE HookPointsFrom(_, _)
HookPointsFrom(lines, k) ==
    IF k > Len(lines) THEN << >> ELSE lines[k].points \o HookPointsFrom(lines, k + 1)

ZeroVector == [x |-> Num(0), y |-> Num(0), z |-> Num(0)]

\* What the writer was given, as positions and normals
WrittenPoints ==
    IF ptsOrigin = "hook" THEN HookPointsFrom(marginLines, 1)
    ELSE [ i \in 1..Len(ptsSource) |->
             [ position |-> [x |-> ptsSource[i].x, y |-> ptsSource[i].y, z |-> ptsSource[i].z],
               normal |-> ZeroVector ] ]

\* The normal a parsed point carries; a point without one counts as zero
NormalOf(p) ==
    IF "nx" \in DOMAIN p THEN [x |-> p.nx, y |-> p.ny, z |-> p.nz] ELSE ZeroVector

Micro == Unit \div 1000000

\* C7: parsing the text the writer produced yields as many points, in the
\* same order, each x, y, z within 1e-6 of the original and each normal
\* equal to the written normal (zero when the writer wrote none).
C7_RoundTrip ==
    (ptsPhase = "parsed" /\ ptsOrigin \in {"store", "hook"}) =>
        /\ Len(ptsParsed) = Len(WrittenPoints)
        /\ \A i \in 1..Len(ptsParsed) :
             /\ Within(ptsParsed[i].x, WrittenPoints[i].position.x, Micro)
             /\ Within(ptsParsed[i].y, WrittenPoints[i].position.y, Micro)
             /\ Within(ptsParsed[i].z, WrittenPoints[i].position.z, Micro)
             /\ Within(NormalOf(ptsParsed[i]).x, WrittenPoints[i].normal.x, Micro)
             /\ Within(NormalOf(ptsParsed[i]).y, WrittenPoints[i].normal.y, Micro)
             /\ Within(NormalOf(ptsParsed[i]).z, WrittenPoints[i].normal.z, Micro)

IsComment(l) == l.toks # << >> /\ l.toks[1].k = "hash"

IsDataLine(l) ==
    /\ Len(l.toks) \in {3, 6}
    /\ \A j \in 1..Len(l.toks) : l.toks[j].k = "num" /\ l.toks[j].dec = 6

HasToken(l, tok) == \E j \in 1..Len(l.toks) : l.toks[j] = tok

\* C8: the writer emits '#' header lines carrying case id, tooth id,
\* timestamp and point count, then one data line per point; the stated count
\* equals the number of data lines and every data line has 3 or 6 fields
\* with 6 fixed decimals.  (Blank separator lines are not counted.)
C8_WriterFormat ==
    ptsPhase \in {"written", "parsed"} /\ ptsOrigin \in {"store", "hook"} =>
        LET lines == SelectSeq(ptsText, TrimNonEmpty)
            data == SelectSeq(lines, LAMBDA l : ~IsComment(l))
            headerLen == Len(lines) - Len(data)
        IN  /\ \A i \in 1..Len(lines) : IsComment(lines[i]) <=> i <= headerLen
            /\ \E i \in 1..headerLen : HasToken(lines[i], CaseNumber)
            /\ \E i \in 1..headerLen :
                 HasToken(lines[i], WordTok("Tooth:")) /\ HasToken(lines[i], ToothNumber)
            /\ \E i \in 1..headerLen :
                 HasToken(lines[i], WordTok("Generated:")) /\ HasToken(lines[i], IsoNow)
            /\ \E i \in 1..headerLen :
                 HasToken(lines[i], WordTok("Count:")) /\ HasToken(lines[i], IntTok(Len(data)))
            /\ Len(data) = Len(WrittenPoints)
            /\ \A i \in 1..Len(data) : IsDataLine(data[i])

\* C9: the completion query is true iff the store holds at least 10 points,
\* and the status shown is "Not Defined" for 0 points, "Incomplete" for 1 to
\* 9 and "Complete" from 10 on, after every operation on the store.
C9_StatusMatchesCount ==
    /\ validateMarginCompletion(points) <=> Len(points) >= 10
    /\ marginStatus = IF Len(points) = 0 THEN "Not Defined"
                      ELSE IF Len(points) < 10 THEN "Incomplete"
                      ELSE "Complete"

C9_Witness ==
    /\ Len(points) = 9
    /\ lastDetect.count = 10
    /\ marginStatus = "Incomplete"
    /\ ~validateMarginCompletion(points)

\* C10: with fewer than 10 points in the store the export button is disabled
\* and no file is written.
C10_ExportOnlyWhenComplete ==
    /\ Len(points) < 10 => exportBtnDisabled
    /\ lastFile # NoFile => lastFile.written >= 10

\* C11: the workflow never moves from the margin stage to the design stage or
\* beyond while the store holds fewer than 10 points, whichever control is
\* used (the stage's Next button, the global Next button, the progress tabs).
C11_AdvanceOnlyWhenComplete ==
    [][ (currentStage = 3 /\ currentStage' >= 4) => Len(points) >= 10 ]_vars

\* C12: deleteMarginPoint(id) removes the point with that id and leaves
\* every other point as it was and in the same order, the count going down by
\* exactly one; with no such point the list is left as it was; no exception
\* escapes.
C12_DeleteRemovesOne ==
    [][ \A id \in DeleteIds :
          (DeleteMarginPoint /\ DeletePoint(id)) =>
             LET present == \E i \in 1..Len(points) : points[i].id = id
             IN  /\ \A i \in 1..Len(points') : points'[i].id # id
                 /\ \A i \in 1..Len(points) :
                      points[i].id # id =>
                        \E j \in 1..Len(points') :
                          /\ points'[j] = points[i]
                          /\ j = Cardinality({ k \in 1..i : points[k].id # id })
                 /\ present => Len(points') = Len(points) - 1
                 /\ ~present => points' = points
                 /\ uncaught' = uncaught ]_vars

\* The point with id 2 was deleted out of a detected list
C12_Witness ==
    /\ Len(points) >= 9
    /\ lastDetect.count = Len(points) + 1
    /\ \A i \in 1..Len(points) : points[i].id # 2
    /\ points[1].id = 1

\* C13: clearMarginPoints leaves the point list empty and the cached curve
\* absent, whatever the state before; the settings stay as they were and the
\* status shown afterwards is "Not Defined".
C13_ClearEmptiesStore ==
    [][ ClearMarginPoints =>
          /\ points' = << >>
          /\ curve' = NoCurve
          /\ smoothness' = smoothness
          /\ marginStatus' = "Not Defined" ]_vars

\* Cleared after a detection of ten or more points, the smoothness moved
C13_Witness ==
    /\ points = << >>
    /\ curve = NoCurve
    /\ marginStatus = "Not Defined"
    /\ lastDetect.count >= 10
    /\ smoothness # InitialSmoothness

\* C14: the cached curve is absent or is the interpolation of the points
\* now in the store; a curve computed from an earlier point set is never kept.
C14_CurveFollowsPoints ==
    curve = NoCurve \/ curve = generateMarginCurve(points)

\* C15: no two auto-detect requests are in flight at once: while a request
\* is pending the auto-detect button is disabled, so a second cannot start.
C15_OneDetectInFlight ==
    /\ Len(detectReqs) <= 1
    /\ detectReqs # << >> => autoBtnDisabled

\* A request in flight after an earlier one has settled
C15_Witness ==
    /\ Len(detectReqs) = 1
    /\ autoBtnDisabled
    /\ lastDetect.path # "none"

\* C16: between the start of an asynchronous detect request and the
\* application of its result no other operation changes the point list, so an
\* applied result never overwrites a change made while it was in flight.
C16_MutationsSerialized ==
    [][ (detectReqs # << >> /\ Len(detectReqs') = Len(detectReqs)) => points' = points ]_vars

\* ------------------------------------------------------------ solidification
\* A call of the modelling tools has returned
SolidCalled == solidPhase \in { "solidified", "applied" }

\* The model handed to the call carried a position array
HadPositions ==
    /\ lastSolid.input.exists
    /\ lastSolid.input.geometry.id # "none"
    /\ lastSolid.input.geometry.hasPosition

\* C17: for every mesh with a position array of length L (whole triangles) and
\* every depth, the solid geometry's array is the outer block, the inner block
\* and the wall block in this order; the first L values are the input positions
\* value for value, the inner block has length L (the inner positions of each
\* triangle, last vertex first), the rest is the wall block, and the input
\* position array is the same after the call.
C17_OuterInnerWallBlocks ==
    (SolidCalled /\ HadPositions) =>
        LET positions == lastSolid.input.geometry.position
            L == Len(positions)
            solid == lastSolid.call.solid
            out == solid.returned.position
        IN  /\ solid.ok
            /\ Len(out) = 2 * L + Len(solid.wallVertices)
            /\ SubSeq(out, 1, L) = positions
            /\ Len(SubSeq(out, L + 1, 2 * L)) = L
            /\ \A t \in 0..((L \div 9) - 1) : \A k \in 0..2 :
                   VertexAt(SubSeq(out, L + 1, 2 * L), 3 * t + k)
                     = VertexAt(solid.innerPositions, 3 * t + (2 - k))
            /\ SubSeq(out, 2 * L + 1, Len(out)) = solid.wallVertices
            /\ lastSolid.call.original.position = positions

\* A mesh of two triangles or more was solidified and applied, with walls
C17_Witness ==
    /\ solidPhase = "applied"
    /\ HadPositions
    /\ Len(lastSolid.input.geometry.position) >= 18
    /\ lastSolid.call.solid.wallVertices # << >>
    /\ lastSolid.call.returned
    /\ model.geometry.id = "solid"
    /\ depthArgument = Depth(1)

\* The normals the call worked with: the normal attribute of the caller's
\* geometry, which computeVertexNormals has filled in where it was missing
NormalsUsed == lastSolid.call.original.normal

\* C18: for every vertex v of the flat array, with its own normal n, and every
\* depth d, the inner position generated for v is v - n * d, component by
\* component, whether or not another vertex has the same position; when all
\* normals are (0, 0, 1), every inner vertex is the outer vertex minus (0, 0, d).
C18_InnerIsVertexMinusNormalDepth ==
    (SolidCalled /\ HadPositions) =>
        LET positions == lastSolid.input.geometry.position
            inner == lastSolid.call.solid.innerPositions
            d == DepthParameter(depthArgument)
            vertices == 0..((Len(positions) \div 3) - 1)
        IN  /\ Len(inner) = Len(positions)
            /\ lastSolid.input.geometry.hasNormal => NormalsUsed = lastSolid.input.geometry.normal
            /\ \A v \in vertices : \A c \in 1..3 :
                   VertexAt(inner, v)[c]
                     = VertexAt(positions, v)[c] - VertexAt(NormalsUsed, v)[c] * d
            /\ NormalsUsed = UniformNormals(Len(positions)) =>
                   \A v \in vertices :
                       VertexAt(inner, v) = Sub(VertexAt(positions, v), << 0, 0, d * NormalUnit >>)

\* Two faces that share an edge and carry normals (0, 0, 1) were solidified with
\* the default depth
C18_Witness ==
    /\ solidPhase = "solidified"
    /\ lastSolid.input.geometry.position = FaceUp \o FaceSide
    /\ lastSolid.input.geometry.hasNormal
    /\ lastSolid.input.geometry.normal = UniformNormals(18)
    /\ depthArgument = UndefinedDepth
    /\ VertexAt(lastSolid.call.solid.innerPositions, 1) = << Mm, 0, 0 - 2 * Mm >>

\* The model handed to the call had no geometry to work on: no model, no
\* geometry, no position attribute or an empty position array
NoInputGeometry ==
    \/ ~lastSolid.input.exists
    \/ lastSolid.input.geometry.id = "none"
    \/ ~lastSolid.input.geometry.hasPosition
    \/ lastSolid.input.geometry.position = << >>

\* C19: when the mesh has no geometry (no model, no geometry, no or empty
\* positions) or its normals cannot be computed, the call reports failure and
\* the caller's model is as before: same geometry object, same positions, same
\* filename.
C19_NoGeometryFailsUntouched ==
    (SolidCalled /\ NoInputGeometry) =>
        /\ ~lastSolid.call.returned
        /\ ~lastSolid.call.solid.ok
        /\ model.geometry.id = lastSolid.input.geometry.id
        /\ model.geometry.position = lastSolid.input.geometry.position
        /\ ~model.geometry.disposed
        /\ model.filename = lastSolid.input.filename

\* C20: a call with a negative depth reports failure, returns no geometry and
\* leaves the caller's geometry in place.
C20_NegativeDepthRejected ==
    (/\ SolidCalled
     /\ HadPositions
     /\ lastSolid.input.geometry.position # << >>
     /\ depthArgument.given
     /\ depthArgument.v < 0) =>
        /\ ~lastSolid.call.returned
        /\ ~lastSolid.call.solid.ok
        /\ model.geometry.id = lastSolid.input.geometry.id
        /\ model.geometry.position = lastSolid.input.geometry.position

\* The three vertices of triangle k of a flat array
TriangleOf(array, k) ==
    << VertexAt(array, 3 * k), VertexAt(array, 3 * k + 1), VertexAt(array, 3 * k + 2) >>

\* The inner block of the solid geometry's position array
InnerBlock ==
    LET L == Len(lastSolid.input.geometry.position)
    IN  SubSeq(lastSolid.call.solid.returned.position, L + 1, 2 * L)

\* C26: for every triangle k of the mesh, with inner-surface vertices (a, b, c),
\* slot k of the inner block holds (c, b, a): the three inner positions of that
\* triangle and no others, each once
C26_InnerBlockReversesEachTriangle ==
    (SolidCalled /\ HadPositions) =>
        \A k \in 0..((Len(lastSolid.input.geometry.position) \div 9) - 1) :
            LET inner == TriangleOf(lastSolid.call.solid.innerPositions, k)
                slot == TriangleOf(InnerBlock, k)
            IN  /\ slot = << inner[3], inner[2], inner[1] >>
                /\ \A v \in 1..3 :
                      Cardinality({ w \in 1..3 : slot[w] = inner[v] })
                        = Cardinality({ w \in 1..3 : inner[w] = inner[v] })

\* Two different faces were solidified; the second slot starts with the last
\* inner vertex of the second face, which is not its first
C26_Witness ==
    /\ solidPhase = "solidified"
    /\ lastSolid.input.geometry.position = FaceUp \o FaceSlanted
    /\ VertexAt(InnerBlock, 3) = VertexAt(lastSolid.call.solid.innerPositions, 5)
    /\ VertexAt(InnerBlock, 3) # VertexAt(lastSolid.call.solid.innerPositions, 3)

\* The boundary candidates of the mesh handed to the call
BoundaryOfInput == findBoundaryVertices(lastSolid.input.geometry.position)

\* Vertex w lies closer than 0.1 to vertex v
CloserThanTolerance(positions, v, w) ==
    LET d == Sub(VertexAt(positions, v), VertexAt(positions, w))
    IN  (d[1] * d[1] + d[2] * d[2] + d[3] * d[3]) * 100 < PosUnit * PosUnit

\* The number of other array entries closer than 0.1 to vertex v
OthersWithin(positions, v) ==
    Cardinality({ w \in 0..((Len(positions) \div 3) - 1) : w # v /\ CloserThanTolerance(positions, v, w) })

\* C27: the boundary candidates are in ascending index order, none twice, and
\* are exactly the vertices with fewer than 6 other array entries closer than
\* 0.1, copies of one position counted one by one
C27_BoundaryIsFewerThanSixOthers ==
    (SolidCalled /\ HadPositions) =>
        LET positions == lastSolid.input.geometry.position
            b == BoundaryOfInput
        IN  /\ \A i \in 1..Len(b) : \A j \in 1..Len(b) : i < j => b[i] < b[j]
            /\ { b[i] : i \in 1..Len(b) }
                 = { v \in 0..((Len(positions) \div 3) - 1) : OthersWithin(positions, v) < 6 }

\* Two tiny faces and a large one that starts at the same corner: the seven
\* vertices at the corner have six others each and are left out, the two far
\* vertices are returned
C27_Witness ==
    /\ SolidCalled
    /\ lastSolid.input.geometry.position = FaceTiny \o FaceTiny \o FaceUp
    /\ OthersWithin(lastSolid.input.geometry.position, 0) = 6
    /\ BoundaryOfInput = << 7, 8 >>

\* C28: with boundary candidates b[1..B], the wall block is, for i = 1..B-1 in
\* order, the triangles (outer[b_i], outer[b_i+1], inner[b_i]) and
\* (inner[b_i], outer[b_i+1], inner[b_i+1]): 2 * (B - 1) triangles for B >= 1,
\* none for B = 0, nothing from the last candidate back to the first, and the
\* length of the merged array is a multiple of 9
C28_WallsJoinConsecutiveCandidates ==
    (SolidCalled /\ HadPositions) =>
        LET outer == lastSolid.input.geometry.position
            inner == lastSolid.call.solid.innerPositions
            walls == lastSolid.call.solid.wallVertices
            b == BoundaryOfInput
            B == Len(b)
        IN  /\ Len(walls) = 9 * (IF B >= 1 THEN 2 * (B - 1) ELSE 0)
            /\ \A i \in 1..(B - 1) :
                  SubSeq(walls, 18 * (i - 1) + 1, 18 * i)
                    = VertexAt(outer, b[i]) \o VertexAt(outer, b[i + 1]) \o VertexAt(inner, b[i])
                      \o VertexAt(inner, b[i]) \o VertexAt(outer, b[i + 1])
                      \o VertexAt(inner, b[i + 1])
            /\ Len(lastSolid.call.solid.returned.position) % 9 = 0

\* One face with three candidates gave two wall segments of two triangles each
C28_Witness ==
    /\ SolidCalled
    /\ lastSolid.input.geometry.position = FaceSlanted
    /\ BoundaryOfInput = << 0, 1, 2 >>
    /\ Len(lastSolid.call.solid.wallVertices) = 36
    /\ SubSeq(lastSolid.call.solid.wallVertices, 19, 21) = << Mm, 0, 0 >>

\* ------------------------------------------------------- scan-cleanup hook
\* A step of one of the four drawing operations
DrawingStep ==
    \/ StartMarginDrawing
    \/ AddMarginPoint
    \/ CompleteMarginLine
    \/ ApplyAutoDetectedMargin

\* C21: isComplete is terminal. Over every step of startMarginDrawing,
\* addMarginPoint, completeMarginLine and applyAutoDetectedMargin, a line that is
\* complete stays in its place in marginLines, stays complete and keeps its
\* point sequence.
C21_CompleteIsTerminal ==
    [][ DrawingStep =>
          \A k \in 1..Len(cleanupState.marginLines) :
              cleanupState.marginLines[k].isComplete =>
                  /\ k <= Len(cleanupState'.marginLines)
                  /\ cleanupState'.marginLines[k].isComplete
                  /\ cleanupState'.marginLines[k].points = cleanupState.marginLines[k].points
      ]_vars

\* C30: activeMarginLine is null or the id of a line of marginLines that is not
\* complete, and isDrawingMargin is true exactly when activeMarginLine is set.
C30_ActiveLineIsPresent ==
    /\ \/ cleanupState.activeMarginLine = NoLineId
       \/ \E k \in 1..Len(cleanupState.marginLines) :
             /\ cleanupState.marginLines[k].id = cleanupState.activeMarginLine
             /\ ~cleanupState.marginLines[k].isComplete
    /\ cleanupState.isDrawingMargin <=> (cleanupState.activeMarginLine # NoLineId)

\* ------------------------------------------------------ margin curve engine
Sampled == curveRun.phase = "sampled"
Smoothed == curveRun.phase = "smoothed"
Curved == curveRun.phase = "curved"
CurveLen == Len(curveRun.points)

\* C22: for a list of 1 <= n < 4 points and t = step / SampleSteps in [0,1],
\* interpolateSpline returns the input entry at index floor(t * (n - 1)), the
\* whole number k with k <= t * (n - 1) < k + 1, with nothing changed on it
C22_ShortListIsIndexLookup ==
    (Sampled /\ CurveLen >= 1 /\ CurveLen < 4) =>
        \E k \in 0..(CurveLen - 1) :
            /\ k * SampleSteps <= curveRun.step * (CurveLen - 1)
            /\ curveRun.step * (CurveLen - 1) < (k + 1) * SampleSteps
            /\ curveRun.sample = curveRun.points[k + 1]

\* A sample strictly inside a 3-point list: t = 5/8 gives the middle entry
C22_Witness ==
    /\ Sampled
    /\ CurveLen = 3
    /\ curveRun.step = 5
    /\ curveRun.sample = curveRun.points[2]

\* The quotient sum / (s + 2) at the resolution of the numbers
IsQuotient(r, sum, weight) ==
    /\ ~IsNaN(r)
    /\ (weight + 2) * r.v <= sum
    /\ sum < (weight + 2) * (r.v + 1)

\* Entry i of the result is the weighted mean of the input's entries i - 1, i, i + 1
SmoothedFromOriginal(result, pts, weight, i) ==
    LET n == Len(pts)
        prev == pts[((i - 2 + n) % n) + 1]
        next == pts[(i % n) + 1]
    IN  /\ result[i].id = pts[i].id
        /\ result[i].confidence = pts[i].confidence
        /\ IsQuotient(result[i].x, prev.x.v + weight * pts[i].x.v + next.x.v, weight)
        /\ IsQuotient(result[i].y, prev.y.v + weight * pts[i].y.v + next.y.v, weight)
        /\ IsQuotient(result[i].z, prev.z.v + weight * pts[i].z.v + next.z.v, weight)

\* C23: smoothing with weight s >= 1 leaves the input list as it was and returns
\* a list of the same length whose entry i is (prev + s * current + next) / (s + 2)
\* of the input's positions, with the id and confidence of input entry i
C23_SmoothingIsSimultaneous ==
    [][ SmoothMarginPoints =>
          /\ curveRun'.points = curveRun.points
          /\ Len(curveRun'.smoothed) = CurveLen
          /\ \A i \in 1..CurveLen :
                SmoothedFromOriginal(curveRun'.smoothed, curveRun.points,
                                     curveRun.smoothness, i) ]_vars

\* A smoothing of three or more points that moved a point
C23_Witness ==
    /\ Smoothed
    /\ CurveLen >= 3
    /\ curveRun.smoothness = InitialSmoothness
    /\ \E i \in 1..CurveLen : curveRun.smoothed[i].x # curveRun.points[i].x

\* C24: on an empty list or a list of one point, smoothing returns a list equal
\* to the input, interpolateSpline returns the single point (on the empty list,
\* a value rather than undefined), and generateMarginCurve returns the input
C24_SmallSetsComeBackUnchanged ==
    CurveLen <= 1 =>
        /\ Smoothed => curveRun.smoothed = curveRun.points
        /\ (Sampled /\ CurveLen = 1) => curveRun.sample = curveRun.points[1]
        /\ (Sampled /\ CurveLen = 0) => curveRun.sample # Undefined
        /\ Curved => (curveRun.curve # NoCurve /\ curveRun.curve = curveRun.points)

\* The position of a point
PositionOf(point) == [ x |-> point.x, y |-> point.y, z |-> point.z ]

\* points[j % n] of the list handed to the curve engine
ControlPoint(j) == curveRun.points[((j + CurveLen) % CurveLen) + 1]

\* C25: for n >= 4 points the curve has 4n + 1 samples, sample i is catmullRom
\* of the control points idx - 1, idx, idx + 1, idx + 2 (indices modulo n) with
\* idx = floor(i / 4), every sample at i = 4k is points[k mod n], and the first
\* and the last sample are points[0]
C25_CurvePassesThroughPoints ==
    (Curved /\ CurveLen >= 4) =>
        /\ Len(curveRun.curve) = 4 * CurveLen + 1
        /\ \A i \in 0..(4 * CurveLen) :
              curveRun.curve[i + 1] =
                  catmullRom(ControlPoint((i \div 4) - 1), ControlPoint(i \div 4),
                             ControlPoint((i \div 4) + 1), ControlPoint((i \div 4) + 2),
                             i % 4)
        /\ \A k \in 0..CurveLen : curveRun.curve[4 * k + 1] = PositionOf(ControlPoint(k))
        /\ curveRun.curve[1] = PositionOf(curveRun.points[1])
        /\ curveRun.curve[4 * CurveLen + 1] = PositionOf(curveRun.points[1])

\* ------------------------------------------------------------ prep detection
\* C29: detectPrepAreas returns for every mesh size, with at most 50 suggested
\* points, a confidence between 0 and 1 (0 and 100 hundredths), and detected
\* only when more than 10 candidates were found
C29_DetectionReturns ==
    <>( /\ prepRun.phase = "returned"
        /\ prepRun.suggested <= SamplePoints
        /\ prepRun.confidence >= 0
        /\ prepRun.confidence <= 100
        /\ prepRun.detected => prepRun.candidates > 10 )

====
